---------------------------- MODULE Spec2Model ----------------------------
(***************************************************************************)
(* The JupyterHub configuration mapper of jupyterhub_config.py: the        *)
(* evaluation of the script over a configuration tree, the camelCaseify    *)
(* key derivation, and the pre-spawn hook spawner_config.                  *)
(***************************************************************************)
EXTENDS Integers, Sequences, FiniteSets, TLC

VARIABLES
    tree,       \* the configuration tree get_config reads (read-only)
    secrets,    \* the values get_secret_value returns, by dotted key
    files,      \* jupyterhub_config.d: Absent, or file name -> fragment
    c,          \* the settings object: <<category, attribute>> -> value
    environ,    \* os.environ entries the script writes
    printed,    \* the progress lines printed so far
    pc,         \* position of the evaluation in the script
    error,      \* the exception that aborted the evaluation, or None
    cin,        \* camelCaseify: the argument
    cout,       \* camelCaseify: the returned string, or None before the call
    hpc,        \* pre-spawn hook: position of each invocation
    hstate,     \* pre-spawn hook: each invocation's local auth_state
    hfail,      \* pre-spawn hook: invocations that raised
    store,      \* the user's persisted auth_state
    directory,  \* the profile record the directory holds for the user
    admin,      \* spawner.user.admin
    spawner,    \* the spawner object the hook mutates
    lookups,    \* directory lookups performed so far
    saves,      \* save_auth_state calls completed so far
    calls,      \* hook invocations started so far
    last        \* observer: the outcome of the latest invocation that ended

mapvars == <<tree, secrets, files, c, environ, printed, pc, error>>
camelvars == <<cin, cout>>
hookvars == <<hpc, hstate, hfail, store, directory, admin, spawner, lookups, saves, calls, last>>
vars == <<tree, secrets, files, c, environ, printed, pc, error, cin, cout,
          hpc, hstate, hfail, store, directory, admin, spawner, lookups, saves, calls, last>>

---------------------------------------------------------------------------
(* Python values.  Every value carries its type, so that None, strings,    *)
(* lists and dicts are never confused.                                     *)

None == [t |-> "none"]
S(v) == [t |-> "str", v |-> v]
B(v) == [t |-> "bool", v |-> v]
I(v) == [t |-> "int", v |-> v]
L(v) == [t |-> "list", v |-> v]
\* a string whose characters the code reads: its sequence of characters
C(v) == [t |-> "chars", v |-> v]
\* a dict: its keys in insertion order (what items() iterates) and its entries
D(k, v) == [t |-> "dict", k |-> k, v |-> v]
\* a LazyConfigValue: list operations recorded on an attribute never assigned
Lazy(v) == [t |-> "lazy", v |-> v]
\* a key the configuration tree does not hold
Absent == [t |-> "absent"]

Range(s) == {s[i] : i \in DOMAIN s}

\* Python truthiness of a value
Truthy(v) ==
    CASE v.t = "none" -> FALSE
      [] v.t = "str"  -> v.v /= ""
      [] v.t = "bool" -> v.v
      [] v.t = "int"  -> v.v /= 0
      [] v.t = "list" -> v.v /= <<>>
      [] v.t = "chars" -> v.v /= <<>>
      [] v.t = "dict" -> v.k /= <<>>
      [] OTHER        -> TRUE

---------------------------------------------------------------------------
(* Strings.  A string whose characters the code inspects is a sequence of  *)
(* one-character strings; Str gives the string it spells.                  *)

RECURSIVE Str(_)
Str(s) == IF s = <<>> THEN "" ELSE Head(s) \o Str(Tail(s))

LowerChars == <<"a","b","c","d","e","f","g","h","i","j","k","l","m",
                "n","o","p","q","r","s","t","u","v","w","x","y","z">>
UpperChars == <<"A","B","C","D","E","F","G","H","I","J","K","L","M",
                "N","O","P","Q","R","S","T","U","V","W","X","Y","Z">>
IsLower(ch) == ch \in Range(LowerChars)
\* str.upper() of one lowercase letter
Upper(ch) == UpperChars[CHOOSE i \in DOMAIN LowerChars : LowerChars[i] = ch]

\* a plausible slip: every underscore is dropped, also before a non-letter
RECURSIVE camelCaseifyDropAll(_)
camelCaseifyDropAll(s) ==
    IF s = <<>> THEN <<>>
    ELSE IF s[1] = "_" /\ Len(s) >= 2 /\ IsLower(s[2])
         THEN <<Upper(s[2])>> \o camelCaseifyDropAll(SubSeq(s, 3, Len(s)))
         ELSE IF s[1] = "_" THEN camelCaseifyDropAll(Tail(s))
         ELSE <<s[1]>> \o camelCaseifyDropAll(Tail(s))

\* re.sub(r"_([a-z])", lambda m: m.group(1).upper(), s): scan left to right,
\* each match (an underscore and the lowercase letter after it) replaced by
\* the letter in upper case, matches never overlapping
RECURSIVE camelCaseify(_)
camelCaseify(s) ==
    IF s = <<>> THEN <<>>
    ELSE IF s[1] = "_" /\ Len(s) >= 2 /\ IsLower(s[2])
         THEN <<Upper(s[2])>> \o camelCaseify(SubSeq(s, 3, Len(s)))
         ELSE <<s[1]>> \o camelCaseify(Tail(s))

---------------------------------------------------------------------------
(* The (trait, cfg_key) lists the script iterates.  A trait is spelled out *)
(* character by character because camelCaseify reads its characters.       *)

\* the (trait, cfg_key) pairs of the c.JupyterHub loop
hub_traits ==
    << <<<<"c","o","n","c","u","r","r","e","n","t","_","s","p","a","w","n","_","l","i","m","i","t">>, None>>,
       <<<<"a","c","t","i","v","e","_","s","e","r","v","e","r","_","l","i","m","i","t">>, None>>,
       <<<<"b","a","s","e","_","u","r","l">>, None>>,
       <<<<"a","l","l","o","w","_","n","a","m","e","d","_","s","e","r","v","e","r","s">>, None>>,
       <<<<"n","a","m","e","d","_","s","e","r","v","e","r","_","l","i","m","i","t","_","p","e","r","_","u","s","e","r">>, None>>,
       <<<<"a","u","t","h","e","n","t","i","c","a","t","e","_","p","r","o","m","e","t","h","e","u","s">>, None>>,
       <<<<"r","e","d","i","r","e","c","t","_","t","o","_","s","e","r","v","e","r">>, None>>,
       <<<<"s","h","u","t","d","o","w","n","_","o","n","_","l","o","g","o","u","t">>, None>>,
       <<<<"t","e","m","p","l","a","t","e","_","p","a","t","h","s">>, None>>,
       <<<<"t","e","m","p","l","a","t","e","_","v","a","r","s">>, None>> >>

\* the (trait, cfg_key) pairs of the c.KubeSpawner loop
kubespawner_traits ==
    << <<<<"p","o","d","_","n","a","m","e","_","t","e","m","p","l","a","t","e">>, None>>,
       <<<<"s","t","a","r","t","_","t","i","m","e","o","u","t">>, None>>,
       <<<<"i","m","a","g","e","_","p","u","l","l","_","p","o","l","i","c","y">>, S("image.pullPolicy")>>,
       <<<<"e","v","e","n","t","s","_","e","n","a","b","l","e","d">>, S("events")>>,
       <<<<"e","x","t","r","a","_","l","a","b","e","l","s">>, None>>,
       <<<<"e","x","t","r","a","_","a","n","n","o","t","a","t","i","o","n","s">>, None>>,
       <<<<"u","i","d">>, None>>,
       <<<<"f","s","_","g","i","d">>, None>>,
       <<<<"s","e","r","v","i","c","e","_","a","c","c","o","u","n","t">>, S("serviceAccountName")>>,
       <<<<"s","t","o","r","a","g","e","_","e","x","t","r","a","_","l","a","b","e","l","s">>, S("storage.extraLabels")>>,
       <<<<"n","o","d","e","_","s","e","l","e","c","t","o","r">>, None>>,
       <<<<"n","o","d","e","_","a","f","f","i","n","i","t","y","_","r","e","q","u","i","r","e","d">>, S("extraNodeAffinity.required")>>,
       <<<<"n","o","d","e","_","a","f","f","i","n","i","t","y","_","p","r","e","f","e","r","r","e","d">>, S("extraNodeAffinity.preferred")>>,
       <<<<"p","o","d","_","a","f","f","i","n","i","t","y","_","r","e","q","u","i","r","e","d">>, S("extraPodAffinity.required")>>,
       <<<<"p","o","d","_","a","f","f","i","n","i","t","y","_","p","r","e","f","e","r","r","e","d">>, S("extraPodAffinity.preferred")>>,
       <<<<"p","o","d","_","a","n","t","i","_","a","f","f","i","n","i","t","y","_","r","e","q","u","i","r","e","d">>, S("extraPodAntiAffinity.required")>>,
       <<<<"p","o","d","_","a","n","t","i","_","a","f","f","i","n","i","t","y","_","p","r","e","f","e","r","r","e","d">>, S("extraPodAntiAffinity.preferred")>>,
       <<<<"l","i","f","e","c","y","c","l","e","_","h","o","o","k","s">>, None>>,
       <<<<"i","n","i","t","_","c","o","n","t","a","i","n","e","r","s">>, None>>,
       <<<<"e","x","t","r","a","_","c","o","n","t","a","i","n","e","r","s">>, None>>,
       <<<<"m","e","m","_","l","i","m","i","t">>, S("memory.limit")>>,
       <<<<"m","e","m","_","g","u","a","r","a","n","t","e","e">>, S("memory.guarantee")>>,
       <<<<"c","p","u","_","l","i","m","i","t">>, S("cpu.limit")>>,
       <<<<"c","p","u","_","g","u","a","r","a","n","t","e","e">>, S("cpu.guarantee")>>,
       <<<<"e","x","t","r","a","_","r","e","s","o","u","r","c","e","_","l","i","m","i","t","s">>, S("extraResource.limits")>>,
       <<<<"e","x","t","r","a","_","r","e","s","o","u","r","c","e","_","g","u","a","r","a","n","t","e","e","s">>, S("extraResource.guarantees")>>,
       <<<<"e","n","v","i","r","o","n","m","e","n","t">>, S("extraEnv")>>,
       <<<<"p","r","o","f","i","l","e","_","l","i","s","t">>, None>>,
       <<<<"e","x","t","r","a","_","p","o","d","_","c","o","n","f","i","g">>, None>> >>

\* the pairs every OAuth branch maps
common_oauth_traits ==
    << <<<<"c","l","i","e","n","t","_","i","d">>, None>>,
       <<<<"c","l","i","e","n","t","_","s","e","c","r","e","t">>, None>>,
       <<<<"o","a","u","t","h","_","c","a","l","l","b","a","c","k","_","u","r","l">>, S("callbackUrl")>> >>

\* the pairs the google branch adds
google_traits ==
    << <<<<"h","o","s","t","e","d","_","d","o","m","a","i","n">>, None>>,
       <<<<"l","o","g","i","n","_","s","e","r","v","i","c","e">>, None>> >>

\* the pairs the github branch adds
github_traits ==
    << <<<<"g","i","t","h","u","b","_","o","r","g","a","n","i","z","a","t","i","o","n","_","w","h","i","t","e","l","i","s","t">>, S("orgWhitelist")>> >>

\* the pairs the mediawiki branch adds
mediawiki_traits ==
    << <<<<"i","n","d","e","x","_","u","r","l">>, None>> >>

\* the pairs the globus branch adds
globus_traits ==
    << <<<<"i","d","e","n","t","i","t","y","_","p","r","o","v","i","d","e","r">>, None>> >>

---------------------------------------------------------------------------
(* Dicts, the settings object and the z2jh helpers.                        *)

EmptyDict == D(<<>>, <<>>)
DHas(d, key) == key \in DOMAIN d.v
DGet(d, key, default) == IF DHas(d, key) THEN d.v[key] ELSE default
DSet(d, key, val) ==
    D(IF DHas(d, key) THEN d.k ELSE Append(d.k, key),
      [x \in DOMAIN d.v \cup {key} |-> IF x = key THEN val ELSE d.v[x]])
DPop(d, key) ==
    D(SelectSeq(d.k, LAMBDA x : x /= key), [x \in DOMAIN d.v \ {key} |-> d.v[x]])

\* an evaluation result: the settings object, and the exception raised if any
Ok(cc) == [c |-> cc, err |-> None]
Raise(cc, type, msg, arg) ==
    [c |-> cc, err |-> [t |-> "exc", type |-> type, msg |-> msg, arg |-> arg]]

Has(cc, cat, attr) == <<cat, attr>> \in DOMAIN cc
\* c.<cat>.<attr> = val
Assign(cc, cat, attr, val) == (<<cat, attr>> :> val) @@ cc

\* c.<cat>.<attr>.extend(xs) (append is extend of one element): on an assigned
\* list the list grows; on an attribute never assigned the settings object
\* records the elements lazily, to be added to the service's default
Extend(cc, cat, attr, xs) ==
    IF ~Has(cc, cat, attr) THEN Ok(Assign(cc, cat, attr, Lazy(xs)))
    ELSE LET cur == cc[<<cat, attr>>] IN
         IF cur.t = "lazy" THEN Ok(Assign(cc, cat, attr, Lazy(cur.v \o xs)))
         ELSE IF cur.t = "list" THEN Ok(Assign(cc, cat, attr, L(cur.v \o xs)))
         ELSE Raise(cc, "AttributeError", "object has no attribute 'extend'", cur)

\* c[<cat>].update(cfg)
RECURSIVE UpdateFrom(_, _, _, _)
UpdateFrom(cc, cat, cfg, ks) ==
    IF ks = <<>> THEN cc
    ELSE UpdateFrom(Assign(cc, cat, Head(ks), cfg.v[Head(ks)]), cat, cfg, Tail(ks))
Update(cc, cat, cfg) == UpdateFrom(cc, cat, cfg, cfg.k)

\* z2jh.get_config(key, default): the value at the dotted key, null included;
\* the default when the tree does not hold the key
get_config(key, default) == IF key \in DOMAIN tree THEN tree[key] ELSE default

\* z2jh.get_secret_value(key, default)
get_secret_value(key, default) == IF key \in DOMAIN secrets THEN secrets[key] ELSE default

\* a slip in a mapping step: the value is assigned whether or not it is null
set_config_always(cc, cat, name, key) == Assign(cc, cat, name, get_config(key, None))

\* z2jh.set_config_if_not_none(cparent, name, key)
set_config_if_not_none(cc, cat, name, key) ==
    LET data == get_config(key, None) IN
    IF data /= None THEN Assign(cc, cat, name, data) ELSE cc

\* z2jh.get_name(name): the name of the chart's resource
get_name(name) == name

\* the process environment Kubernetes provides to the hub container
ProcessEnv ==
    [HUB_SERVICE_HOST |-> <<"1","0",".","0",".","0",".","7">>,
     HUB_SERVICE_PORT |-> <<"8","0","8","1">>,
     PROXY_API_SERVICE_PORT |-> <<"8","0","0","1">>,
     POD_NAMESPACE |-> <<"j","h","u","b">>]
\* z2jh.get_name_env(name, suffix): the environment variable of the resource
get_name_env(name, suffix) ==
    CASE name = "proxy-api" /\ suffix = "_SERVICE_PORT" -> Str(ProcessEnv.PROXY_API_SERVICE_PORT)
      [] name = "hub" /\ suffix = "_SERVICE_PORT" -> Str(ProcessEnv.HUB_SERVICE_PORT)

---------------------------------------------------------------------------
(* Decimal conversions: str(n) and int(s).                                 *)

Digits == <<"0","1","2","3","4","5","6","7","8","9">>
IsDigit(ch) == ch \in Range(Digits)
DigitVal(ch) == (CHOOSE i \in DOMAIN Digits : Digits[i] = ch) - 1

\* str(n) of an integer: the characters of its decimal notation
RECURSIVE str_nat(_)
str_nat(n) == IF n < 10 THEN <<Digits[n + 1]>> ELSE str_nat(n \div 10) \o <<Digits[(n % 10) + 1]>>
str_int(n) == IF n < 0 THEN <<"-">> \o str_nat(0 - n) ELSE str_nat(n)

\* int(s) of a string of decimal digits
RECURSIVE int_of(_)
int_of(s) == IF s = <<>> THEN 0 ELSE 10 * int_of(SubSeq(s, 1, Len(s) - 1)) + DigitVal(s[Len(s)])

\* str(v) as an f-string formats it
Fmt(v) ==
    CASE v.t = "str"  -> v.v
      [] v.t = "chars" -> Str(v.v)
      [] v.t = "int"  -> Str(str_int(v.v))
      [] v.t = "bool" -> IF v.v THEN "True" ELSE "False"
      [] v.t = "none" -> "None"

\* s.replace(old, new) for one-character old and new
RECURSIVE Replace(_, _, _)
Replace(s, old, new) ==
    IF s = <<>> THEN <<>>
    ELSE <<IF Head(s) = old THEN new ELSE Head(s)>> \o Replace(Tail(s), old, new)

\* s.split(sep) for a one-character separator
RECURSIVE Split(_, _)
Split(s, sep) ==
    IF \A i \in DOMAIN s : s[i] /= sep THEN <<s>>
    ELSE LET i == CHOOSE j \in DOMAIN s : s[j] = sep /\ \A k \in 1..(j - 1) : s[k] /= sep
         IN <<SubSeq(s, 1, i - 1)>> \o Split(SubSeq(s, i + 1, Len(s)), sep)

\* s.rsplit(sep, 1)[-1]: what follows the last separator
RSplitLast(s, sep) ==
    IF \A i \in DOMAIN s : s[i] /= sep THEN s
    ELSE LET i == CHOOSE j \in DOMAIN s : s[j] = sep /\ \A k \in (j + 1)..Len(s) : s[k] /= sep
         IN SubSeq(s, i + 1, Len(s))

---------------------------------------------------------------------------
(* The script, section by section.  Each section takes the settings object *)
(* as the sections before it left it and gives the settings object after   *)
(* it, with the exception it raised if any.                                *)

\* a run of plain assignments c.<cat>.<attr> = val
RECURSIVE AssignAll(_, _)
AssignAll(cc, as) ==
    IF as = <<>> THEN cc
    ELSE AssignAll(Assign(cc, as[1][1], as[1][2], as[1][3]), Tail(as))

\* what one iteration of a loop over (trait, cfg_key) pairs works with: the
\* attribute name, and the key given or derived
\*     if cfg_key is None: cfg_key = camelCaseify(trait)
Derived(pairs) ==
    [i \in DOMAIN pairs |->
        [name |-> Str(pairs[i][1]),
         key |-> IF pairs[i][2] = None THEN S(Str(camelCaseify(pairs[i][1]))) ELSE pairs[i][2]]]

\* the same for the loops whose body derives nothing: the key stays as given
NotDerived(pairs) == [i \in DOMAIN pairs |-> [name |-> Str(pairs[i][1]), key |-> pairs[i][2]]]

\* a loop body without its None check: the value is assigned always
RECURSIVE MapTraitsAlways(_, _, _, _)
MapTraitsAlways(cc, cat, prefix, steps) ==
    IF steps = <<>> THEN Ok(cc)
    ELSE IF steps[1].key = None
    THEN Raise(cc, "TypeError", "can only concatenate str (not NoneType) to str", S(prefix))
    ELSE MapTraitsAlways(set_config_always(cc, cat, steps[1].name, prefix \o steps[1].key.v),
                         cat, prefix, Tail(steps))

\* a loop that stops after its first pair
MapTraitsFirst(cc, cat, prefix, steps) ==
    IF steps = <<>> THEN Ok(cc)
    ELSE IF steps[1].key = None
    THEN Raise(cc, "TypeError", "can only concatenate str (not NoneType) to str", S(prefix))
    ELSE Ok(set_config_if_not_none(cc, cat, steps[1].name, prefix \o steps[1].key.v))

\* for trait, cfg_key in pairs:
\*     set_config_if_not_none(c.<cat>, trait, prefix + cfg_key)
\* where prefix + None raises TypeError
RECURSIVE MapTraits(_, _, _, _)
MapTraits(cc, cat, prefix, steps) ==
    IF steps = <<>> THEN Ok(cc)
    ELSE IF steps[1].key = None
    THEN Raise(cc, "TypeError", "can only concatenate str (not NoneType) to str", S(prefix))
    ELSE MapTraits(set_config_if_not_none(cc, cat, steps[1].name, prefix \o steps[1].key.v),
                   cat, prefix, Tail(steps))

\* the iterations of each loop of the script
hub_steps == Derived(hub_traits)
kubespawner_steps == Derived(kubespawner_traits)
google_steps == Derived(common_oauth_traits \o google_traits)
github_steps == Derived(common_oauth_traits \o github_traits)
cilogon_steps == NotDerived(common_oauth_traits)
gitlab_steps == NotDerived(common_oauth_traits)
mediawiki_steps == NotDerived(common_oauth_traits \o mediawiki_traits)
globus_steps == NotDerived(common_oauth_traits \o globus_traits)

hub_container_port == 8081

\* lines 41-59: the hub's fixed settings
HubStatic(cc) ==
    Ok(AssignAll(cc, <<
        <<"JupyterHub", "spawner_class", S("kubespawner.KubeSpawner")>>,
        <<"ConfigurableHTTPProxy", "api_url",
          S("http://" \o get_name("proxy-api") \o ":" \o get_name_env("proxy-api", "_SERVICE_PORT"))>>,
        <<"ConfigurableHTTPProxy", "should_start", B(FALSE)>>,
        <<"JupyterHub", "cleanup_servers", B(FALSE)>>,
        <<"JupyterHub", "last_activity_interval", I(60)>>,
        <<"JupyterHub", "tornado_settings",
          D(<<"slow_spawn_timeout">>, [slow_spawn_timeout |-> I(0)])>> >>))

\* lines 63-69: the hub db connection
HubDb(cc) ==
    LET db_type == get_config("hub.db.type", None) IN
    Ok(IF db_type = S("sqlite-pvc")
         THEN Assign(cc, "JupyterHub", "db_url", S("sqlite:///jupyterhub.sqlite"))
       ELSE IF db_type = S("sqlite-memory")
         THEN Assign(cc, "JupyterHub", "db_url", S("sqlite://"))
       ELSE set_config_if_not_none(cc, "JupyterHub", "db_url", "hub.db.url"))

\* lines 70-75: the db password handed to the db client through os.environ
HubDbEnviron(env) ==
    LET db_type == get_config("hub.db.type", None)
        db_password == get_secret_value("hub.db.password", None)
    IN IF db_password = None THEN env
       ELSE IF db_type = S("mysql")
         THEN [k \in DOMAIN env \cup {"MYSQL_PWD"} |-> IF k = "MYSQL_PWD" THEN db_password ELSE env[k]]
       ELSE IF db_type = S("postgres")
         THEN [k \in DOMAIN env \cup {"PGPASSWORD"} |-> IF k = "PGPASSWORD" THEN db_password ELSE env[k]]
       ELSE env

\* lines 76-77: the warning printed for a password no db client reads
HubDbPrinted(out) ==
    LET db_type == get_config("hub.db.type", None)
        db_password == get_secret_value("hub.db.password", None)
    IN IF db_password /= None /\ db_type /= S("mysql") /\ db_type /= S("postgres")
       THEN Append(out, "Warning: hub.db.password is ignored for hub.db.type=" \o Fmt(db_type))
       ELSE out

\* lines 81-95: c.JupyterHub configuration from the chart's configmap
HubTraits(cc) == MapTraits(cc, "JupyterHub", "hub.", hub_steps)

\* lines 111-126: the common labels of the chart's resources
CommonLabels ==
    LET chart_name == get_config("Chart.Name", None)
        chart_version == get_config("Chart.Version", None)
        release == get_config("Release.Name", None)
        l1 == DSet(EmptyDict, "app", get_config("nameOverride", get_config("Chart.Name", S("jupyterhub"))))
        l2 == DSet(l1, "heritage", S("jupyterhub"))
        l3 == IF Truthy(chart_name) /\ Truthy(chart_version)
              THEN DSet(l2, "chart", S(Fmt(chart_name) \o "-" \o Str(Replace(chart_version.v, "+", "_"))))
              ELSE l2
    IN IF Truthy(release) THEN DSet(l3, "release", release) ELSE l3

\* lines 99-136: the hub's urls, the common labels, the namespace
HubUrls(cc) ==
    Ok(set_config_if_not_none(
        AssignAll(cc, <<
            <<"JupyterHub", "hub_bind_url", S("http://:" \o Str(str_int(hub_container_port)))>>,
            <<"JupyterHub", "hub_connect_url",
              S("http://" \o get_name("hub") \o ":" \o get_name_env("hub", "_SERVICE_PORT"))>>,
            <<"KubeSpawner", "common_labels", CommonLabels>>,
            <<"KubeSpawner", "namespace", S(Str(ProcessEnv.POD_NAMESPACE))>> >>),
        "Spawner", "consecutive_failure_limit", "hub.consecutiveFailureLimit"))

\* lines 138-174: the c.KubeSpawner traits
KubeSpawnerTraits(cc) == MapTraits(cc, "KubeSpawner", "singleuser.", kubespawner_steps)

\* lines 176-182: the image, with its tag when one is given
SingleuserImage(cc) ==
    LET image == get_config("singleuser.image.name", None)
        tag == get_config("singleuser.image.tag", None)
    IN IF ~Truthy(image) THEN cc
       ELSE Assign(cc, "KubeSpawner", "image",
                   IF Truthy(tag) THEN S(Fmt(image) \o ":" \o Fmt(tag)) ELSE image)

\* lines 195-205: the image pull secrets combined
ImagePullSecrets(cc) ==
    LET s1 == IF Truthy(get_config("imagePullSecret.automaticReferenceInjection", None))
                 /\ Truthy(get_config("imagePullSecret.create", None))
              THEN <<S(get_name("image-pull-secret"))>> ELSE <<>>
        s2 == IF Truthy(get_config("imagePullSecrets", None))
              THEN s1 \o get_config("imagePullSecrets", None).v ELSE s1
        s3 == IF Truthy(get_config("singleuser.image.pullSecrets", None))
              THEN s2 \o get_config("singleuser.image.pullSecrets", None).v ELSE s2
    IN IF s3 /= <<>> THEN Assign(cc, "KubeSpawner", "image_pull_secrets", L(s3)) ELSE cc

\* lines 208-211: the scheduler and the priority class of user pods
Scheduling(cc) ==
    LET c1 == IF Truthy(get_config("scheduling.userScheduler.enabled", None))
              THEN Assign(cc, "KubeSpawner", "scheduler_name", S(get_name("user-scheduler")))
              ELSE cc
    IN IF Truthy(get_config("scheduling.podPriority.enabled", None))
       THEN Assign(c1, "KubeSpawner", "priority_class_name", S(get_name("priority")))
       ELSE c1

\* lines 176-211: image, privilege escalation, pull secrets, scheduling
SingleuserPod(cc) ==
    Ok(Scheduling(ImagePullSecrets(
        Assign(SingleuserImage(cc), "KubeSpawner", "allow_privilege_escalation",
               get_config("singleuser.allowPrivilegeEscalation", None)))))

\* lines 216-224: the node selector term of user nodes
node_selector ==
    D(<<"matchExpressions">>,
      [matchExpressions |->
         L(<<D(<<"key", "operator", "values">>,
               [key |-> S("hub.jupyter.org/node-purpose"),
                operator |-> S("In"),
                values |-> L(<<S("user")>>)])>>)])

\* lines 227-230: the preferred scheduling term
node_preference == D(<<"weight", "preference">>, [weight |-> I(100), preference |-> node_selector])

\* lines 214-239: the node-purpose affinity
NodePurpose(cc) ==
    LET match_node_purpose == get_config("scheduling.userPods.nodeAffinity.matchNodePurpose", None) IN
    IF ~Truthy(match_node_purpose) THEN Ok(cc)
    ELSE IF match_node_purpose = S("prefer")
      THEN Extend(cc, "KubeSpawner", "node_affinity_preferred", <<node_preference>>)
    ELSE IF match_node_purpose = S("require")
      THEN Extend(cc, "KubeSpawner", "node_affinity_required", <<node_selector>>)
    ELSE IF match_node_purpose = S("ignore") THEN Ok(cc)
    ELSE Raise(cc, "ValueError", "Unrecognized value for matchNodePurpose: ", match_node_purpose)

\* lines 242-246: the tolerations of user pods combined
Tolerations(cc) ==
    LET scheduling_user_pods_tolerations == get_config("scheduling.userPods.tolerations", L(<<>>))
        singleuser_extra_tolerations == get_config("singleuser.extraTolerations", L(<<>>))
    IN IF scheduling_user_pods_tolerations.t /= "list" \/ singleuser_extra_tolerations.t /= "list"
       THEN Raise(cc, "TypeError", "unsupported operand type(s) for +", None)
       ELSE LET tolerations == scheduling_user_pods_tolerations.v \o singleuser_extra_tolerations.v IN
            Ok(IF tolerations /= <<>> THEN Assign(cc, "KubeSpawner", "tolerations", L(tolerations)) ELSE cc)

\* lines 249-292: the home volume and its mount
Storage(cc) ==
    LET storage_type == get_config("singleuser.storage.type", None) IN
    IF storage_type = S("dynamic") THEN
        LET pvc_name_template == get_config("singleuser.storage.dynamic.pvcNameTemplate", None)
            volume_name_template == get_config("singleuser.storage.dynamic.volumeNameTemplate", None)
            c1 == AssignAll(cc, <<
                    <<"KubeSpawner", "pvc_name_template", pvc_name_template>>,
                    <<"KubeSpawner", "storage_pvc_ensure", B(TRUE)>> >>)
            c2 == set_config_if_not_none(c1, "KubeSpawner", "storage_class",
                                         "singleuser.storage.dynamic.storageClass")
            c3 == set_config_if_not_none(c2, "KubeSpawner", "storage_access_modes",
                                         "singleuser.storage.dynamic.storageAccessModes")
            c4 == set_config_if_not_none(c3, "KubeSpawner", "storage_capacity",
                                         "singleuser.storage.capacity")
        IN Ok(AssignAll(c4, <<
                <<"KubeSpawner", "volumes",
                  L(<<D(<<"name", "persistentVolumeClaim">>,
                        [name |-> volume_name_template,
                         persistentVolumeClaim |->
                            D(<<"claimName">>, [claimName |-> pvc_name_template])])>>)>>,
                <<"KubeSpawner", "volume_mounts",
                  L(<<D(<<"mountPath", "name">>,
                        [mountPath |-> get_config("singleuser.storage.homeMountPath", None),
                         name |-> volume_name_template])>>)>> >>))
    ELSE IF storage_type = S("static") THEN
        LET pvc_claim_name == get_config("singleuser.storage.static.pvcName", None) IN
        Ok(AssignAll(cc, <<
                <<"KubeSpawner", "volumes",
                  L(<<D(<<"name", "persistentVolumeClaim">>,
                        [name |-> S("home"),
                         persistentVolumeClaim |->
                            D(<<"claimName">>, [claimName |-> pvc_claim_name])])>>)>>,
                <<"KubeSpawner", "volume_mounts",
                  L(<<D(<<"mountPath", "name", "subPath">>,
                        [mountPath |-> get_config("singleuser.storage.homeMountPath", None),
                         name |-> S("home"),
                         subPath |-> get_config("singleuser.storage.static.subPath", None)])>>)>> >>))
    ELSE Ok(cc)

\* lines 301-312: one item of the secret volume per extra file
ExtraFileItems(extra_files) ==
    [i \in 1..Len(extra_files.k) |->
        LET file_key == extra_files.k[i]
            file_details == extra_files.v[file_key]
            item == D(<<"key", "path">>, [key |-> S(file_key), path |-> S(file_key)])
        IN IF DHas(file_details, "mode") THEN DSet(item, "mode", file_details.v["mode"]) ELSE item]

\* lines 319-327: one mount per extra file
ExtraFileMounts(extra_files) ==
    [i \in 1..Len(extra_files.k) |->
        LET file_key == extra_files.k[i]
            file_details == extra_files.v[file_key]
        IN D(<<"mountPath", "subPath", "name">>,
             [mountPath |-> file_details.v["mountPath"],
              subPath |-> S(file_key),
              name |-> S("files")])]

\* the extra files mounted without their volume
ExtraFilesMountsOnly(cc) ==
    LET extra_files == get_config("singleuser.extraFiles", EmptyDict) IN
    IF ~Truthy(extra_files) THEN Ok(cc)
    ELSE IF \E i \in DOMAIN extra_files.k : ~DHas(extra_files.v[extra_files.k[i]], "mountPath")
         THEN Raise(cc, "KeyError", "mountPath", None)
    ELSE Extend(cc, "KubeSpawner", "volume_mounts", ExtraFileMounts(extra_files))

\* lines 296-328: singleuser.extraFiles as a volume and its mounts
ExtraFiles(cc) ==
    LET extra_files == get_config("singleuser.extraFiles", EmptyDict) IN
    IF ~Truthy(extra_files) THEN Ok(cc)
    ELSE LET volume == D(<<"name", "secret">>,
                         [name |-> S("files"),
                          secret |-> D(<<"secretName", "items">>,
                                       [secretName |-> S(get_name("singleuser")),
                                        items |-> L(ExtraFileItems(extra_files))])])
             r1 == Extend(cc, "KubeSpawner", "volumes", <<volume>>)
         IN IF r1.err /= None THEN r1
            ELSE IF \E i \in DOMAIN extra_files.k : ~DHas(extra_files.v[extra_files.k[i]], "mountPath")
                 THEN Raise(r1.c, "KeyError", "mountPath", None)
            ELSE Extend(r1.c, "KubeSpawner", "volume_mounts", ExtraFileMounts(extra_files))

\* lines 331-340: the extra volumes and mounts, and the hub's address
ExtraVolumes(cc) ==
    LET extra_volumes == get_config("singleuser.storage.extraVolumes", L(<<>>))
        extra_volume_mounts == get_config("singleuser.storage.extraVolumeMounts", L(<<>>))
    IN IF extra_volumes.t /= "list" THEN Raise(cc, "TypeError", "object is not iterable", extra_volumes)
       ELSE LET r1 == Extend(cc, "KubeSpawner", "volumes", extra_volumes.v) IN
            IF r1.err /= None THEN r1
            ELSE IF extra_volume_mounts.t /= "list"
                 THEN Raise(r1.c, "TypeError", "object is not iterable", extra_volume_mounts)
            ELSE LET r2 == Extend(r1.c, "KubeSpawner", "volume_mounts", extra_volume_mounts.v) IN
                 IF r2.err /= None THEN r2
                 ELSE Ok(AssignAll(
                        set_config_if_not_none(r2.c, "KubeSpawner", "lifecycle_hooks",
                                               "singleuser.lifecycleHooks"),
                        << <<"JupyterHub", "hub_connect_ip", S(Str(ProcessEnv.HUB_SERVICE_HOST))>>,
                           <<"JupyterHub", "hub_connect_port", I(int_of(ProcessEnv.HUB_SERVICE_PORT))>> >>))

---------------------------------------------------------------------------
(* The authenticator dispatch.                                             *)

HexDigits == <<"0","1","2","3","4","5","6","7","8","9","a","b","c","d","e","f">>
IsHex(s) == Len(s) % 2 = 0 /\ \A i \in DOMAIN s : s[i] \in Range(HexDigits)
HexVal(ch) == (CHOOSE i \in DOMAIN HexDigits : HexDigits[i] = ch) - 1
\* bytes.fromhex(s): one byte per pair of hex digits
FromHex(s) == [i \in 1..(Len(s) \div 2) |-> 16 * HexVal(s[2 * i - 1]) + HexVal(s[2 * i])]

\* lines 401-416: the directory-backed authenticator
LdapBranch(cc) ==
    LET c0 == AssignAll(cc, <<
                <<"JupyterHub", "authenticator_class", S("ldapauthenticator.LDAPAuthenticator")>>,
                <<"LDAPAuthenticator", "server_address", get_config("auth.ldap.server.address", None)>> >>)
        c1 == set_config_if_not_none(c0, "LDAPAuthenticator", "server_port", "auth.ldap.server.port")
        c2 == set_config_if_not_none(c1, "LDAPAuthenticator", "use_ssl", "auth.ldap.server.ssl")
        c3 == set_config_if_not_none(c2, "LDAPAuthenticator", "allowed_groups", "auth.ldap.allowedGroups")
        c4 == set_config_if_not_none(c3, "LDAPAuthenticator", "bind_dn_template", "auth.ldap.dn.templates")
        c5 == set_config_if_not_none(c4, "LDAPAuthenticator", "lookup_dn", "auth.ldap.dn.lookup")
        c6 == set_config_if_not_none(c5, "LDAPAuthenticator", "lookup_dn_search_filter", "auth.ldap.dn.search.filter")
        c7 == set_config_if_not_none(c6, "LDAPAuthenticator", "lookup_dn_search_user", "auth.ldap.dn.search.user")
        c8 == set_config_if_not_none(c7, "LDAPAuthenticator", "lookup_dn_search_password", "auth.ldap.dn.search.password")
        c9 == set_config_if_not_none(c8, "LDAPAuthenticator", "lookup_dn_user_dn_attribute", "auth.ldap.dn.user.dnAttribute")
        c10 == set_config_if_not_none(c9, "LDAPAuthenticator", "escape_userdn", "auth.ldap.dn.user.escape")
        c11 == set_config_if_not_none(c10, "LDAPAuthenticator", "valid_username_regex", "auth.ldap.dn.user.validRegex")
        c12 == set_config_if_not_none(c11, "LDAPAuthenticator", "user_search_base", "auth.ldap.dn.user.searchBase")
    IN Ok(set_config_if_not_none(c12, "LDAPAuthenticator", "user_attribute", "auth.ldap.dn.user.attribute"))

\* lines 417-427: an authenticator class named by the configuration
CustomBranch(cc) ==
    LET full_class_name == get_config("auth.custom.className", None) IN
    IF full_class_name.t /= "chars"
    THEN Raise(Assign(cc, "JupyterHub", "authenticator_class", full_class_name),
               "AttributeError", "object has no attribute 'rsplit'", full_class_name)
    ELSE LET auth_class_name == Str(RSplitLast(full_class_name.v, "."))
             auth_config == get_config("auth.custom.config", None)
             c1 == Assign(cc, "JupyterHub", "authenticator_class", S(Str(full_class_name.v)))
         IN Ok(IF Truthy(auth_config) THEN Update(c1, auth_class_name, auth_config) ELSE c1)

\* a dispatch that falls through for an unhandled selector instead of raising
AuthDispatchSilent(cc) == Ok(cc)

\* lines 343-429: the authenticator selected by auth.type
AuthDispatch(cc) ==
    LET auth_type == get_config("auth.type", None)
        Class(name) == Assign(cc, "JupyterHub", "authenticator_class", S(name))
    IN
    IF auth_type = S("google") THEN
        MapTraits(Class("oauthenticator.GoogleOAuthenticator"), "GoogleOAuthenticator",
                  "auth.google.", google_steps)
    ELSE IF auth_type = S("github") THEN
        MapTraits(Class("oauthenticator.github.GitHubOAuthenticator"), "GitHubOAuthenticator",
                  "auth.github.", github_steps)
    ELSE IF auth_type = S("cilogon") THEN
        MapTraits(Class("oauthenticator.CILogonOAuthenticator"), "CILogonOAuthenticator",
                  "auth.cilogon.", cilogon_steps)
    ELSE IF auth_type = S("gitlab") THEN
        MapTraits(Class("oauthenticator.gitlab.GitLabOAuthenticator"), "GitLabOAuthenticator",
                          "auth.gitlab.", gitlab_steps)
    ELSE IF auth_type = S("mediawiki") THEN
        MapTraits(Class("oauthenticator.mediawiki.MWOAuthenticator"), "MWOAuthenticator",
                          "auth.mediawiki.", mediawiki_steps)
    ELSE IF auth_type = S("globus") THEN
        MapTraits(Class("oauthenticator.globus.GlobusOAuthenticator"), "GlobusOAuthenticator",
                          "auth.globus.", globus_steps)
    ELSE IF auth_type = S("hmac") THEN
        LET secret_key == get_config("auth.hmac.secretKey", None)
            c1 == Class("hmacauthenticator.HMACAuthenticator")
        IN IF secret_key.t /= "chars"
           THEN Raise(c1, "TypeError", "fromhex() argument must be str", secret_key)
           ELSE IF ~IsHex(secret_key.v)
           THEN Raise(c1, "ValueError", "non-hexadecimal number found in fromhex() arg", secret_key)
           ELSE Ok(Assign(c1, "HMACAuthenticator", "secret_key",
                          [t |-> "bytes", v |-> FromHex(secret_key.v)]))
    ELSE IF auth_type = S("dummy") THEN
        Ok(set_config_if_not_none(Class("dummyauthenticator.DummyAuthenticator"),
                                  "DummyAuthenticator", "password", "auth.dummy.password"))
    ELSE IF auth_type = S("tmp") THEN
        Ok(Class("tmpauthenticator.TmpAuthenticator"))
    ELSE IF auth_type = S("lti") THEN
        Ok(set_config_if_not_none(Class("ltiauthenticator.LTIAuthenticator"),
                                  "LTIAuthenticator", "consumers", "auth.lti.consumers"))
    ELSE IF auth_type = S("ldap") THEN LdapBranch(cc)
    ELSE IF auth_type = S("custom") THEN CustomBranch(cc)
    ELSE Raise(cc, "ValueError", "Unhandled auth type: ", auth_type)

\* lines 431-438: scopes, auth state, admin access, admin users, whitelist
AuthCommon(cc) ==
    LET c1 == set_config_if_not_none(cc, "OAuthenticator", "scope", "auth.scopes")
        c2 == set_config_if_not_none(c1, "Authenticator", "enable_auth_state", "auth.state.enabled")
        c3 == set_config_if_not_none(c2, "JupyterHub", "admin_access", "auth.admin.access")
        c4 == set_config_if_not_none(c3, "Authenticator", "admin_users", "auth.admin.users")
    IN Ok(set_config_if_not_none(c4, "Authenticator", "whitelist", "auth.whitelist.users"))

---------------------------------------------------------------------------
(* Services and roles.                                                     *)

\* s.strip("/")
RECURSIVE StripSlashes(_)
StripSlashes(s) ==
    IF s = <<>> THEN s
    ELSE IF Head(s) = "/" THEN StripSlashes(Tail(s))
    ELSE IF s[Len(s)] = "/" THEN StripSlashes(SubSeq(s, 1, Len(s) - 1))
    ELSE s

\* jupyterhub.utils.url_path_join(a, b): the pieces joined by single slashes,
\* the first piece's leading and the last piece's trailing slash kept
url_path_join(a, b) ==
    LET sa == StripSlashes(a)
        sb == StripSlashes(b)
        joined == IF sa = <<>> THEN sb ELSE IF sb = <<>> THEN sa ELSE sa \o <<"/">> \o sb
        r1 == IF a /= <<>> /\ Head(a) = "/" THEN <<"/">> \o joined ELSE joined
        r2 == IF b /= <<>> /\ b[Len(b)] = "/" THEN r1 \o <<"/">> ELSE r1
    IN IF r2 = <<"/", "/">> THEN <<"/">> ELSE r2

\* lines 447-458: the culler's role before --cull-users is considered
jupyterhub_idle_culler_role ==
    D(<<"name", "scopes", "services">>,
      [name |-> S("jupyterhub-idle-culler"),
       scopes |-> L(<<S("list:users"), S("read:users:activity"), S("read:servers"), S("delete:servers")>>),
       services |-> L(<<S("jupyterhub-idle-culler")>>)])

\* a culler role that holds admin:users whether or not users are culled
CullRoleAlwaysAdmin ==
    DSet(jupyterhub_idle_culler_role, "scopes",
         L(jupyterhub_idle_culler_role.v["scopes"].v \o <<S("admin:users")>>))

\* lines 476-478: the role's scopes, admin:users added with --cull-users
CullRole ==
    IF Truthy(get_config("cull.users", None))
    THEN DSet(jupyterhub_idle_culler_role, "scopes",
              L(jupyterhub_idle_culler_role.v["scopes"].v \o <<S("admin:users")>>))
    ELSE jupyterhub_idle_culler_role

\* lines 460-488: the culler's command line
CullCmd(cc) ==
    LET base_url == IF Has(cc, "JupyterHub", "base_url") THEN cc[<<"JupyterHub", "base_url">>]
                    ELSE C(<<"/">>)
        Opt(cmd, key, flag) ==
            LET v == get_config(key, None) IN
            IF Truthy(v) THEN Append(cmd, S(flag \o Fmt(v))) ELSE cmd
        Flag(cmd, on, flag) == IF on THEN Append(cmd, S(flag)) ELSE cmd
        k0 == <<S("python3"), S("-m"), S("jupyterhub_idle_culler"),
                S("--url=http://localhost:8081"
                  \o Str(url_path_join(base_url.v, <<"h","u","b","/","a","p","i">>)))>>
        k1 == Opt(k0, "cull.timeout", "--timeout=")
        k2 == Opt(k1, "cull.every", "--cull-every=")
        k3 == Opt(k2, "cull.concurrency", "--concurrency=")
        k4 == Flag(k3, Truthy(get_config("cull.users", None)), "--cull-users")
        k5 == Flag(k4, ~Truthy(get_config("cull.adminUsers", None)), "--cull-admin-users=false")
        k6 == Flag(k5, Truthy(get_config("cull.removeNamedServers", None)), "--remove-named-servers")
    IN Opt(k6, "cull.maxAge", "--max-age=")

\* lines 440-496: the service and role lists, and the idle culler
Cull(cc) ==
    LET c0 == AssignAll(cc, << <<"JupyterHub", "services", L(<<>>)>>,
                               <<"JupyterHub", "load_roles", L(<<>>)>> >>)
    IN IF ~Truthy(get_config("cull.enabled", B(FALSE))) THEN Ok(c0)
       ELSE LET r1 == Extend(c0, "JupyterHub", "services",
                             <<D(<<"name", "command">>,
                                 [name |-> S("jupyterhub-idle-culler"), command |-> L(CullCmd(c0))])>>)
            IN Extend(r1.c, "JupyterHub", "load_roles", <<CullRole>>)

\* lines 498-508: hub.services, each with its api token from the secret
RECURSIVE HubServices(_, _, _)
HubServices(cc, services, ks) ==
    IF ks = <<>> THEN Ok(cc)
    ELSE LET key == Head(ks)
             s1 == IF DHas(services.v[key], "name") THEN services.v[key]
                   ELSE DSet(services.v[key], "name", S(key))
             s2 == DPop(s1, "apiToken")
             token == get_secret_value("hub.services." \o key \o ".apiToken", Absent)
         IN IF token = Absent THEN Raise(cc, "Exception", "secret value not found", S(key))
            ELSE LET r == Extend(cc, "JupyterHub", "services", <<DSet(s2, "api_token", token)>>) IN
                 IF r.err /= None THEN r ELSE HubServices(r.c, services, Tail(ks))

\* lines 510-515: hub.loadRoles
RECURSIVE HubLoadRoles(_, _, _)
HubLoadRoles(cc, roles, ks) ==
    IF ks = <<>> THEN Ok(cc)
    ELSE LET key == Head(ks)
             role == IF DHas(roles.v[key], "name") THEN roles.v[key]
                     ELSE DSet(roles.v[key], "name", S(key))
             r == Extend(cc, "JupyterHub", "load_roles", <<role>>)
         IN IF r.err /= None THEN r ELSE HubLoadRoles(r.c, roles, Tail(ks))

\* lines 498-515: the services and roles of the configuration
ServicesAndRoles(cc) ==
    LET services == get_config("hub.services", EmptyDict)
        roles == get_config("hub.loadRoles", EmptyDict)
    IN IF services.t /= "dict" THEN Raise(cc, "AttributeError", "object has no attribute 'items'", services)
       ELSE LET r == HubServices(cc, services, services.k) IN
            IF r.err /= None THEN r
            ELSE IF roles.t /= "dict"
                 THEN Raise(r.c, "AttributeError", "object has no attribute 'items'", roles)
            ELSE HubLoadRoles(r.c, roles, roles.k)

---------------------------------------------------------------------------
(* The single-user command, the cloud metadata block, debug, the secrets.  *)

\* lines 528-558: the init container that blocks the cloud metadata server
ip_block_container(ip) ==
    [t |-> "V1Container",
     name |-> "block-cloud-metadata",
     image |-> Fmt(get_config("singleuser.networkTools.image.name", None)) \o ":"
               \o Fmt(get_config("singleuser.networkTools.image.tag", None)),
     command |-> <<"iptables", "--append", "OUTPUT", "--protocol", "tcp", "--destination",
                   ip, "--destination-port", "80", "--jump", "DROP">>,
     privileged |-> TRUE,
     run_as_user |-> 0,
     capabilities |-> <<"NET_ADMIN">>,
     resources |-> get_config("singleuser.networkTools.resources", None)]

\* lines 519-563: cmd, default url, cloud metadata, debug
SingleuserCmd(cc) ==
    LET specified_cmd == get_config("singleuser.cmd", Absent)
        c1 == IF specified_cmd /= Absent THEN Assign(cc, "Spawner", "cmd", specified_cmd) ELSE cc
        c2 == set_config_if_not_none(c1, "Spawner", "default_url", "singleuser.defaultUrl")
        cloud_metadata == get_config("singleuser.cloudMetadata", None)
        Debug(x) == IF Truthy(get_config("debug.enabled", B(FALSE)))
                    THEN AssignAll(x, << <<"JupyterHub", "log_level", S("DEBUG")>>,
                                         <<"Spawner", "debug", B(TRUE)>> >>)
                    ELSE x
    IN IF cloud_metadata.t /= "dict"
       THEN Raise(c2, "AttributeError", "object has no attribute 'get'", cloud_metadata)
       ELSE IF DGet(cloud_metadata, "blockWithIptables", None) /= B(TRUE) THEN Ok(Debug(c2))
       ELSE IF ~DHas(cloud_metadata, "ip") THEN Raise(c2, "KeyError", "ip", None)
       ELSE LET r == Extend(c2, "KubeSpawner", "init_containers",
                            <<ip_block_container(Fmt(cloud_metadata.v["ip"]))>>)
            IN IF r.err /= None THEN r ELSE Ok(Debug(r.c))

\* lines 569-573: the seeded secrets
SeededSecrets(cc) ==
    LET cookie_secret == get_secret_value("hub.config.JupyterHub.cookie_secret", Absent)
        keys == get_secret_value("hub.config.CryptKeeper.keys", Absent)
    IN IF cookie_secret = Absent
       THEN Raise(cc, "Exception", "secret value not found", S("hub.config.JupyterHub.cookie_secret"))
       ELSE IF keys = Absent
       THEN Raise(Assign(cc, "JupyterHub", "cookie_secret", cookie_secret),
                  "Exception", "secret value not found", S("hub.config.CryptKeeper.keys"))
       ELSE LET parts == Split(keys.v, ";") IN
            Ok(AssignAll(cc, <<
                <<"JupyterHub", "cookie_secret", cookie_secret>>,
                <<"CryptKeeper", "keys", L([i \in DOMAIN parts |-> S(Str(parts[i]))])>> >>))

\* a loop that drops nothing: every hub.config entry is applied
WithoutSeededNothing(app, cfg) == cfg

\* lines 577-584: the entries of a hub.config category the loop drops
WithoutSeeded(app, cfg) ==
    IF app = "JupyterHub"
    THEN DPop(DPop(DPop(cfg, "proxy_auth_token"), "cookie_secret"), "services")
    ELSE IF app = "ConfigurableHTTPProxy" THEN DPop(cfg, "auth_token")
    ELSE IF app = "CryptKeeper" THEN DPop(cfg, "keys")
    ELSE cfg

\* lines 576-585: the hub.config values, category by category
RECURSIVE HubConfigFrom(_, _, _)
HubConfigFrom(cc, hub_config, apps) ==
    IF apps = <<>> THEN cc
    ELSE HubConfigFrom(Update(cc, Head(apps), WithoutSeeded(Head(apps), hub_config.v[Head(apps)])),
                       hub_config, Tail(apps))
HubConfig(cc) ==
    LET hub_config == get_config("hub.config", EmptyDict) IN
    IF hub_config.t /= "dict"
    THEN Raise(cc, "AttributeError", "object has no attribute 'items'", hub_config)
    ELSE Ok(HubConfigFrom(cc, hub_config, hub_config.k))

---------------------------------------------------------------------------
(* Extra configuration fragments.                                          *)

\* the characters of file names and keys, in code point order
CodeOrder == <<"-", ".", "0","1","2","3","4","5","6","7","8","9",
               "A","B","C","D","E","F","G","H","I","J","K","L","M",
               "N","O","P","Q","R","S","T","U","V","W","X","Y","Z", "_",
               "a","b","c","d","e","f","g","h","i","j","k","l","m",
               "n","o","p","q","r","s","t","u","v","w","x","y","z">>
Ord(ch) == CHOOSE i \in DOMAIN CodeOrder : CodeOrder[i] = ch

\* a < b as Python compares strings
RECURSIVE StrLess(_, _)
StrLess(a, b) ==
    IF b = <<>> THEN FALSE
    ELSE IF a = <<>> THEN TRUE
    ELSE IF Head(a) = Head(b) THEN StrLess(Tail(a), Tail(b))
    ELSE Ord(Head(a)) < Ord(Head(b))

\* the names in the order the dict or the directory listing happens to give
RECURSIVE Unsorted(_)
Unsorted(names) ==
    IF names = {} THEN <<>>
    ELSE LET m == CHOOSE x \in names : \A y \in names \ {x} : StrLess(y, x)
         IN <<m>> \o Unsorted(names \ {m})

\* sorted(names)
RECURSIVE Sorted(_)
Sorted(names) ==
    IF names = {} THEN <<>>
    ELSE LET m == CHOOSE x \in names : \A y \in names \ {x} : StrLess(x, y)
         IN <<m>> \o Sorted(names \ {m})

\* glob("*.py"): the names ending in .py
IsPy(name) == Len(name) >= 3 /\ SubSeq(name, Len(name) - 2, Len(name)) = <<".", "p", "y">>

\* exec(fragment): the fragments are small programs over the settings object
Exec(cc, name, frag) ==
    CASE frag = "set_hooks" ->
            Ok(AssignAll(cc, << <<"Spawner", "pre_spawn_hook", S("fragment_hook")>>,
                                <<"Authenticator", "post_auth_hook", S("fragment_hook")>> >>))
      [] frag = "set_mem_limit" -> Ok(Assign(cc, "KubeSpawner", "mem_limit", S("fragment")))
      [] frag = "probe" ->
            Ok(Assign(cc, "Probe", Str(name),
                      D(<<"x", "hook", "n">>,
                        [x |-> IF Has(cc, "Test", "x") THEN cc[<<"Test", "x">>] ELSE None,
                         hook |-> B(Has(cc, "Spawner", "pre_spawn_hook")),
                         n |-> I(Cardinality({p \in DOMAIN cc : p[1] = "Probe"}))])))
      [] frag = "raise" -> Raise(cc, "RuntimeError", "raised by fragment ", S(Str(name)))

\* run the named fragments in the given order, printing each one's line
RECURSIVE ExecAll(_, _, _, _, _)
ExecAll(cc, out, line, frags, names) ==
    IF names = <<>> THEN [c |-> cc, err |-> None, out |-> out]
    ELSE LET r == Exec(cc, Head(names), frags[Head(names)])
             o == Append(out, line \o Str(Head(names)))
         IN IF r.err /= None THEN [c |-> r.c, err |-> r.err, out |-> o]
            ELSE ExecAll(r.c, o, line, frags, Tail(names))

config_dir == "/usr/local/etc/jupyterhub/jupyterhub_config.d"

\* fragments run in whatever order the listing gives
ConfigDUnsorted(cc, out) ==
    IF files = Absent THEN [c |-> cc, err |-> None, out |-> out]
    ELSE ExecAll(cc, out, "Loading " \o config_dir \o " config: ", files.v,
                 Unsorted({n \in DOMAIN files.v : IsPy(n)}))

\* lines 588-596: the fragments of jupyterhub_config.d
ConfigD(cc, out) ==
    IF files = Absent THEN [c |-> cc, err |-> None, out |-> out]
    ELSE ExecAll(cc, out, "Loading " \o config_dir \o " config: ", files.v,
                 Sorted({n \in DOMAIN files.v : IsPy(n)}))

\* lines 599-601: the hub.extraConfig entries
ExtraConfig(cc, out) ==
    LET extra_config == get_config("hub.extraConfig", EmptyDict) IN
    IF extra_config.t /= "dict"
    THEN [c |-> cc, out |-> out,
          err |-> Raise(cc, "AttributeError", "object has no attribute 'items'", extra_config).err]
    ELSE ExecAll(cc, out, "Loading extra config: ", extra_config.v, Sorted(DOMAIN extra_config.v))

\* both hooks registered whatever the authenticator
RegisterHooksAlways(cc) ==
    Ok(AssignAll(cc, <<
        <<"Authenticator", "post_auth_hook", S("LDAPAuthenticator.build_profile")>>,
        <<"Spawner", "pre_spawn_hook", S("spawner_config")>> >>))

\* lines 670-673: the hooks registered for the directory-backed authenticator
RegisterHooks(cc) ==
    IF get_config("auth.type", None) = S("ldap")
    THEN Ok(AssignAll(cc, <<
            <<"Authenticator", "post_auth_hook", S("LDAPAuthenticator.build_profile")>>,
            <<"Spawner", "pre_spawn_hook", S("spawner_config")>> >>))
    ELSE Ok(cc)

---------------------------------------------------------------------------
(* The pre-spawn hook spawner_config, a coroutine that suspends at each of *)
(* its three yields.                                                       *)

\* sep.join(parts)
RECURSIVE Join(_, _)
Join(sep, parts) ==
    IF parts = <<>> THEN <<>>
    ELSE IF Len(parts) = 1 THEN parts[1]
    ELSE parts[1] \o sep \o Join(sep, Tail(parts))

\* LDAPAuthenticator.build_profile(handler, authentication).get('auth_state'):
\* the auth_state holding the profile record the directory gives for the user
build_profile(record) == D(<<"profile">>, [profile |-> record])

\* line 626: auth_state is None or 'profile' not in auth_state
NoProfile(auth_state) == auth_state = None \/ ~DHas(auth_state, "profile")

\* d[key] = val on the spawner's environment
EnvSet(env, key, val) == [k \in DOMAIN env \cup {key} |-> IF k = key THEN val ELSE env[k]]

\* line 665: ' '.join([':'.join([v, str(k)]) for k, v in group_map.items()])
GroupBuild(group_map) ==
    Join(<<" ">>, [i \in DOMAIN group_map.k |->
                      Join(<<":">>, <<group_map.v[group_map.k[i]], str_int(group_map.k[i])>>)])

\* line 666: ' '.join([str(x) for x in group_membership])
GroupMember(group_membership) ==
    Join(<<" ">>, [i \in DOMAIN group_membership |-> str_int(group_membership[i])])

\* lines 657-658: the sudo grant
GrantSudo(env, user_admin, profile) ==
    IF user_admin \/ Truthy(DGet(profile, "advanced", B(FALSE)))
    THEN EnvSet(env, "GRANT_SUDO", C(<<"1">>))
    ELSE env

\* an identity environment whose NB_UID carries the gid
IdentityEnvSwapped(env, name, profile) ==
    EnvSet(EnvSet(EnvSet(env, "NB_USER", C(name)),
                  "NB_UID", C(str_int(profile.v["gid"].v))),
           "NB_GID", C(str_int(profile.v["gid"].v)))

\* lines 653-655: the user's name and numeric identity
IdentityEnv(env, name, profile) ==
    EnvSet(EnvSet(EnvSet(env, "NB_USER", C(name)),
                  "NB_UID", C(str_int(profile.v["uid"].v))),
           "NB_GID", C(str_int(profile.v["gid"].v)))

\* lines 661-663: the git server and the notebook directory
PlacesEnv(env, name) ==
    EnvSet(EnvSet(env, "GIT_SSH_HOST", get_config("hub.spawner.git_server", None)),
           "NOTEBOOK_DIR",
           C(<<"/","h","o","m","e","/">> \o name \o <<"/","j","u","p","y","t","e","r">>))

\* lines 665-666: the two encodings of the group membership
GroupsEnv(env, profile) ==
    EnvSet(EnvSet(env, "GROUP_BUILD", C(GroupBuild(profile.v["group_map"]))),
           "GROUP_MEMBER", C(GroupMember(profile.v["group_membership"].v)))

\* the hook with the commented-out lines 649-650 in force: the spawner runs
\* under the profile's uid and gid
HookBodyProfileIdentity(sp, user_admin, auth_state) ==
    IF NoProfile(auth_state)
    THEN [sp |-> [sp EXCEPT !.uid = I(0), !.gid = I(0)],
          err |-> IF auth_state = None THEN "TypeError" ELSE "KeyError"]
    ELSE
    LET profile == auth_state.v["profile"]
        s1 == [sp EXCEPT !.uid = DGet(profile, "uid", I(0)), !.gid = DGet(profile, "gid", I(0))]
        s2 == [s1 EXCEPT !.fs_gid = profile.v["gid"]]
        s3 == [s2 EXCEPT !.supplemental_gids = profile.v["group_membership"],
                         !.environment = EnvSet(s2.environment, "NB_USER", C(sp.user_name))]
        s4 == [s3 EXCEPT !.environment =
                  PlacesEnv(GrantSudo(IdentityEnv(s2.environment, sp.user_name, profile),
                                      user_admin, profile), sp.user_name)]
        s5 == [s4 EXCEPT !.environment = GroupsEnv(s4.environment, profile)]
    IN IF ~DHas(profile, "gid") THEN [sp |-> s1, err |-> "KeyError"]
       ELSE IF ~DHas(profile, "group_membership") THEN [sp |-> s2, err |-> "KeyError"]
       ELSE IF ~DHas(profile, "uid") THEN [sp |-> s3, err |-> "KeyError"]
       ELSE IF ~DHas(profile, "group_map") THEN [sp |-> s4, err |-> "KeyError"]
       ELSE [sp |-> s5, err |-> "none"]

\* lines 646-668: the hook from its last resumption to its return; a profile
\* field that is missing raises KeyError where the hook first reads it
HookBody(sp, user_admin, auth_state) ==
    IF NoProfile(auth_state)
    THEN [sp |-> [sp EXCEPT !.uid = I(0), !.gid = I(0)],
          err |-> IF auth_state = None THEN "TypeError" ELSE "KeyError"]
    ELSE
    LET profile == auth_state.v["profile"]
        s1 == [sp EXCEPT !.uid = I(0), !.gid = I(0)]
        s2 == [s1 EXCEPT !.fs_gid = profile.v["gid"]]
        s3 == [s2 EXCEPT !.supplemental_gids = profile.v["group_membership"],
                         !.environment = EnvSet(s2.environment, "NB_USER", C(sp.user_name))]
        s4 == [s3 EXCEPT !.environment =
                  PlacesEnv(GrantSudo(IdentityEnv(s2.environment, sp.user_name, profile),
                                      user_admin, profile), sp.user_name)]
        s5 == [s4 EXCEPT !.environment = GroupsEnv(s4.environment, profile)]
    IN IF ~DHas(profile, "gid") THEN [sp |-> s1, err |-> "KeyError"]
       ELSE IF ~DHas(profile, "group_membership") THEN [sp |-> s2, err |-> "KeyError"]
       ELSE IF ~DHas(profile, "uid") THEN [sp |-> s3, err |-> "KeyError"]
       ELSE IF ~DHas(profile, "group_map") THEN [sp |-> s4, err |-> "KeyError"]
       ELSE [sp |-> s5, err |-> "none"]

---------------------------------------------------------------------------
(* The inputs: the configuration tree, the secrets, the fragment directory.*)

\* how many keys of the configuration differ from the minimal one
MaxKeys == 2
\* the longest string camelCaseify is applied to, beside the traits
MaxLen == 3
\* how many invocations of the pre-spawn hook are followed
MaxCalls == 2

\* the smallest configuration the script evaluates to its end
BaseTree ==
    [k \in {"auth.type", "singleuser.cloudMetadata"} |->
        IF k = "auth.type" THEN S("dummy") ELSE EmptyDict]
BaseSecrets ==
    [k \in {"hub.config.JupyterHub.cookie_secret", "hub.config.CryptKeeper.keys",
            "hub.services.svc.apiToken"} |->
        IF k = "hub.config.JupyterHub.cookie_secret" THEN C(<<"c","0","f","f","e","e">>)
        ELSE IF k = "hub.config.CryptKeeper.keys" THEN C(<<"k","1",";","k","2">>)
        ELSE S("token")]

HubKeys ==
    { "hub.concurrentSpawnLimit",
      "hub.activeServerLimit",
      "hub.baseUrl",
      "hub.allowNamedServers",
      "hub.namedServerLimitPerUser",
      "hub.authenticatePrometheus",
      "hub.redirectToServer",
      "hub.shutdownOnLogout",
      "hub.templatePaths",
      "hub.templateVars" }

SingleuserKeys ==
    { "singleuser.podNameTemplate",
      "singleuser.startTimeout",
      "singleuser.image.pullPolicy",
      "singleuser.events",
      "singleuser.extraLabels",
      "singleuser.extraAnnotations",
      "singleuser.uid",
      "singleuser.fsGid",
      "singleuser.serviceAccountName",
      "singleuser.storage.extraLabels",
      "singleuser.nodeSelector",
      "singleuser.extraNodeAffinity.required",
      "singleuser.extraNodeAffinity.preferred",
      "singleuser.extraPodAffinity.required",
      "singleuser.extraPodAffinity.preferred",
      "singleuser.extraPodAntiAffinity.required",
      "singleuser.extraPodAntiAffinity.preferred",
      "singleuser.lifecycleHooks",
      "singleuser.initContainers",
      "singleuser.extraContainers",
      "singleuser.memory.limit",
      "singleuser.memory.guarantee",
      "singleuser.cpu.limit",
      "singleuser.cpu.guarantee",
      "singleuser.extraResource.limits",
      "singleuser.extraResource.guarantees",
      "singleuser.extraEnv",
      "singleuser.profileList",
      "singleuser.extraPodConfig" }

GoogleKeys ==
    { "auth.google.clientId",
      "auth.google.clientSecret",
      "auth.google.callbackUrl",
      "auth.google.hostedDomain",
      "auth.google.loginService" }

GithubKeys ==
    { "auth.github.clientId",
      "auth.github.clientSecret",
      "auth.github.callbackUrl",
      "auth.github.orgWhitelist" }

CilogonKeys ==
    { "auth.cilogon.clientId",
      "auth.cilogon.clientSecret",
      "auth.cilogon.callbackUrl" }

GitlabKeys ==
    { "auth.gitlab.clientId",
      "auth.gitlab.clientSecret",
      "auth.gitlab.callbackUrl" }

MediawikiKeys ==
    { "auth.mediawiki.clientId",
      "auth.mediawiki.clientSecret",
      "auth.mediawiki.callbackUrl",
      "auth.mediawiki.indexUrl" }

GlobusKeys ==
    { "auth.globus.clientId",
      "auth.globus.clientSecret",
      "auth.globus.callbackUrl",
      "auth.globus.identityProvider" }

LdapKeys ==
    { "auth.ldap.server.address", "auth.ldap.server.port", "auth.ldap.server.ssl",
      "auth.ldap.allowedGroups", "auth.ldap.dn.templates", "auth.ldap.dn.lookup",
      "auth.ldap.dn.search.filter", "auth.ldap.dn.search.user", "auth.ldap.dn.search.password",
      "auth.ldap.dn.user.dnAttribute", "auth.ldap.dn.user.escape", "auth.ldap.dn.user.validRegex",
      "auth.ldap.dn.user.searchBase", "auth.ldap.dn.user.attribute" }

OtherMappedKeys ==
    { "hub.db.url", "hub.consecutiveFailureLimit", "singleuser.allowPrivilegeEscalation",
      "singleuser.storage.dynamic.storageClass", "singleuser.storage.dynamic.storageAccessModes",
      "singleuser.storage.capacity", "auth.dummy.password", "auth.lti.consumers",
      "auth.scopes", "auth.state.enabled", "auth.admin.access", "auth.admin.users",
      "auth.whitelist.users", "singleuser.cmd", "singleuser.defaultUrl" }

\* the keys whose value, when set, is mapped to one attribute
MappedKeys ==
    HubKeys \cup SingleuserKeys \cup GoogleKeys \cup GithubKeys \cup CilogonKeys \cup GitlabKeys
    \cup MediawikiKeys \cup GlobusKeys \cup LdapKeys \cup OtherMappedKeys

\* the value a mapped key is given when it is set
MappedValue(key) ==
    IF key \in {"singleuser.extraNodeAffinity.required", "singleuser.extraNodeAffinity.preferred",
                "singleuser.initContainers"}
    THEN L(<<S("v")>>)
    ELSE IF key = "hub.baseUrl" THEN C(<<"/","j","h">>)
    ELSE S("v")

AuthTypes ==
    {"google", "github", "cilogon", "gitlab", "mediawiki", "globus",
     "hmac", "dummy", "tmp", "lti", "ldap", "custom"}

Flags ==
    { "imagePullSecret.automaticReferenceInjection", "imagePullSecret.create",
      "scheduling.userScheduler.enabled", "scheduling.podPriority.enabled",
      "cull.enabled", "cull.users", "cull.adminUsers", "cull.removeNamedServers",
      "debug.enabled" }

Texts ==
    { "nameOverride", "Chart.Name", "Release.Name", "singleuser.image.name", "singleuser.image.tag",
      "singleuser.storage.dynamic.pvcNameTemplate", "singleuser.storage.dynamic.volumeNameTemplate",
      "singleuser.storage.homeMountPath", "singleuser.storage.static.pvcName",
      "singleuser.storage.static.subPath", "singleuser.networkTools.image.name",
      "singleuser.networkTools.image.tag", "singleuser.networkTools.resources",
      "hub.spawner.git_server", "hub.spawner.adv_access" }

Lists ==
    { "imagePullSecrets", "singleuser.image.pullSecrets", "scheduling.userPods.tolerations",
      "singleuser.extraTolerations", "singleuser.storage.extraVolumes",
      "singleuser.storage.extraVolumeMounts" }

Numbers == { "cull.timeout", "cull.every", "cull.concurrency", "cull.maxAge" }

\* fragment names, as files of the directory and as keys of hub.extraConfig
Frag10 == <<"1","0","-","a",".","p","y">>
Frag9 == <<"9","-","b",".","p","y">>
FragTxt == <<"0","0",".","t","x","t">>
KeyB == <<"b">>
KeyA10 == <<"a","1","0">>
KeyA9 == <<"a","9">>
FragKinds == {"set_hooks", "set_mem_limit", "probe", "raise"}

Fragments(names) ==
    {D(Unsorted(names), [n \in names |-> k]) : k \in FragKinds}

\* the structured values of the configuration
Structured ==
    {<<"singleuser.extraFiles",
       D(<<"b.txt", "a.txt">>,
         [f \in {"a.txt", "b.txt"} |->
            IF f = "a.txt" THEN D(<<"mountPath">>, [mountPath |-> S("/etc/a")])
            ELSE D(<<"mountPath", "mode">>,
                   [k \in {"mountPath", "mode"} |-> IF k = "mode" THEN I(384) ELSE S("/etc/b")])])>>,
     <<"singleuser.cloudMetadata", Absent>>,
     <<"singleuser.cloudMetadata",
       D(<<"blockWithIptables">>, [blockWithIptables |-> B(TRUE)])>>,
     <<"singleuser.cloudMetadata",
       D(<<"blockWithIptables", "ip">>,
         [k \in {"blockWithIptables", "ip"} |->
            IF k = "ip" THEN S("169.254.169.254") ELSE B(TRUE)])>>,
     <<"auth.hmac.secretKey", C(<<"0","a","f","f">>)>>,
     <<"auth.custom.className", C(<<"m","y",".","A","u","t","h">>)>>,
     <<"auth.custom.config", D(<<"opt">>, [opt |-> S("v")])>>,
     <<"Chart.Version", C(<<"1",".","0","+","n","1">>)>>,
     <<"hub.services",
       D(<<"svc">>, [svc |-> D(<<"apiToken", "url">>,
                               [k \in {"apiToken", "url"} |-> S("v")])])>>,
     <<"hub.loadRoles", D(<<"r">>, [r |-> D(<<"scopes">>, [scopes |-> L(<<S("self")>>)])])>>,
     <<"hub.config", D(<<"Test">>, [Test |-> D(<<"x">>, [x |-> S("hub.config")])])>>,
     <<"hub.config",
       D(<<"KubeSpawner">>,
         [KubeSpawner |-> D(<<"mem_limit">>, [mem_limit |-> S("hub.config")])])>>,
     <<"hub.config",
       D(<<"JupyterHub", "CryptKeeper", "ConfigurableHTTPProxy">>,
         [a \in {"JupyterHub", "CryptKeeper", "ConfigurableHTTPProxy"} |->
            IF a = "JupyterHub"
            THEN D(<<"cookie_secret", "proxy_auth_token", "services", "admin_access">>,
                   [k \in {"cookie_secret", "proxy_auth_token", "services", "admin_access"} |->
                      S("hub.config")])
            ELSE IF a = "CryptKeeper" THEN D(<<"keys">>, [keys |-> S("hub.config")])
            ELSE D(<<"auth_token", "api_url">>,
                   [k \in {"auth_token", "api_url"} |-> S("hub.config")])])>>}
    \cup {<<"hub.extraConfig", f>> : f \in Fragments({KeyB, KeyA10, KeyA9})}

\* the keys that are set or not independently of everything else
PlainKeys == MappedKeys \cup Texts \cup Lists \cup Numbers

\* the value a plain key is given when it is set
PlainValue(key) ==
    IF key \in MappedKeys THEN MappedValue(key)
    ELSE IF key \in Lists THEN L(<<S("v")>>)
    ELSE IF key \in Numbers THEN I(7)
    ELSE S("v")

\* the plain keys of a tree: in rotation r a key is absent, null or set by its
\* length, so that over the three rotations every key is each of the three;
\* only a mapped key is ever null
PlainTree(r) ==
    LET state(k) == (Len(k) + r) % 3
        held == {k \in PlainKeys : state(k) = 2 \/ (state(k) = 1 /\ k \in MappedKeys)}
    IN [k \in held |-> IF state(k) = 2 THEN PlainValue(k) ELSE None]

\* every way one of the other keys of the configuration tree can differ from
\* the minimal tree: the key and its value, Absent for a key not held
TreeChoices ==
    {<<"auth.type", S(a)>> : a \in (AuthTypes \cup {"bogus"}) \ {"dummy"}}
    \cup {<<"auth.type", None>>, <<"auth.type", Absent>>}
    \cup {<<"hub.db.type", S(d)>> : d \in {"sqlite-pvc", "sqlite-memory", "mysql", "postgres"}}
    \cup {<<"scheduling.userPods.nodeAffinity.matchNodePurpose", S(m)>> :
            m \in {"prefer", "require", "ignore", "bogus"}}
    \cup {<<"singleuser.storage.type", S(s)>> : s \in {"dynamic", "static", "none"}}
    \cup {<<k, B(TRUE)>> : k \in Flags}
    \cup Structured

\* the other inputs that can differ: the db password and the fragment files
Choices ==
    {<<"tree", ch[1], ch[2]>> : ch \in TreeChoices}
    \cup {<<"secrets", "hub.db.password", S("pw")>>}
    \cup {<<"files", "", f>> : f \in Fragments({Frag10, Frag9, FragTxt})}

RECURSIVE ChoiceSets(_)
ChoiceSets(n) ==
    IF n = 0 THEN {{}}
    ELSE LET smaller == ChoiceSets(n - 1) IN
         smaller \cup {s \cup {ch} : s \in smaller, ch \in Choices}

\* sets of choices that give each input at most one value
Consistent(s) == \A a, b \in s : (a[1] = b[1] /\ a[2] = b[2]) => a = b

\* f, and g where f holds no value
Under(f, g) == [k \in DOMAIN f \cup DOMAIN g |-> IF k \in DOMAIN f THEN f[k] ELSE g[k]]

\* the base with the choices of one source applied
Chosen(base, src, s) ==
    LET set == {ch[2] : ch \in {x \in s : x[1] = src /\ x[3] /= Absent}}
        del == {ch[2] : ch \in {x \in s : x[1] = src /\ x[3] = Absent}}
    IN [k \in (DOMAIN base \cup set) \ del |->
          IF k \in set THEN (CHOOSE ch \in s : ch[1] = src /\ ch[2] = k)[3] ELSE base[k]]

---------------------------------------------------------------------------
(* The evaluation of the script.                                           *)

\* the sections of the script, in source order
Sections ==
    <<"hub", "spawner", "scheduling", "volumes", "auth", "auth_common", "services",
      "singleuser_cmd", "secrets", "hub_config", "config_d", "extra_config", "hooks", "done">>

\* the section after the given one
After(label) == Sections[(CHOOSE i \in DOMAIN Sections : Sections[i] = label) + 1]

\* r, or what F makes of r's settings when r raised nothing
Then(r, F(_)) == IF r.err /= None THEN r ELSE F(r.c)

HookIdle ==
    /\ hpc = [i \in 1..MaxCalls |-> "idle"]
    /\ hstate = [i \in 1..MaxCalls |-> None]
    /\ hfail = {}
    /\ store = None
    /\ directory = None
    /\ admin = FALSE
    /\ spawner = None
    /\ lookups = 0
    /\ saves = 0
    /\ calls = 0
    /\ last = None

Init ==
    /\ \E s \in {x \in ChoiceSets(MaxKeys) : Consistent(x)}, r \in 0..2 :
          /\ tree = Chosen(Under(BaseTree, PlainTree(r)), "tree", s)
          /\ secrets = Chosen(BaseSecrets, "secrets", s)
          /\ files = IF \E ch \in s : ch[1] = "files"
                     THEN (CHOOSE ch \in s : ch[1] = "files")[3] ELSE Absent
    /\ c = <<>>
    /\ environ = <<>>
    /\ printed = <<>>
    /\ pc = "hub"
    /\ error = None
    /\ cin = <<>>
    /\ cout = None
    /\ HookIdle

\* the evaluation moves past a section, or stops at the exception it raised
Advance(label, r) ==
    /\ pc = label
    /\ c' = r.c
    /\ error' = r.err
    /\ pc' = IF r.err = None THEN After(label) ELSE "error"
    /\ UNCHANGED <<tree, secrets, files, camelvars, hookvars>>

\* lines 41-136
EvalHub ==
    /\ Advance("hub", Then(Then(Then(HubStatic(c), HubDb), HubTraits), HubUrls))
    /\ environ' = HubDbEnviron(environ)
    /\ printed' = HubDbPrinted(printed)

\* lines 138-211
EvalSpawner ==
    /\ Advance("spawner", Then(KubeSpawnerTraits(c), SingleuserPod))
    /\ UNCHANGED <<environ, printed>>

\* lines 214-246
EvalScheduling ==
    /\ Advance("scheduling", Then(NodePurpose(c), Tolerations))
    /\ UNCHANGED <<environ, printed>>

\* lines 249-340
EvalVolumes ==
    /\ Advance("volumes", Then(Then(Storage(c), ExtraFiles), ExtraVolumes))
    /\ UNCHANGED <<environ, printed>>

\* lines 343-429
EvalAuth ==
    /\ Advance("auth", AuthDispatch(c))
    /\ UNCHANGED <<environ, printed>>

\* lines 431-438
EvalAuthCommon ==
    /\ Advance("auth_common", AuthCommon(c))
    /\ UNCHANGED <<environ, printed>>

\* lines 440-515
EvalServices ==
    /\ Advance("services", Then(Cull(c), ServicesAndRoles))
    /\ UNCHANGED <<environ, printed>>

\* lines 519-563
EvalSingleuserCmd ==
    /\ Advance("singleuser_cmd", SingleuserCmd(c))
    /\ UNCHANGED <<environ, printed>>

\* lines 565-573
EvalSecrets ==
    /\ Advance("secrets", SeededSecrets(c))
    /\ UNCHANGED <<environ, printed>>

\* lines 575-585
EvalHubConfig ==
    /\ Advance("hub_config", HubConfig(c))
    /\ UNCHANGED <<environ, printed>>

\* lines 587-596
EvalConfigD ==
    LET r == ConfigD(c, printed) IN
    /\ Advance("config_d", [c |-> r.c, err |-> r.err])
    /\ printed' = r.out
    /\ UNCHANGED environ

\* lines 598-601
EvalExtraConfig ==
    LET r == ExtraConfig(c, printed) IN
    /\ Advance("extra_config", [c |-> r.c, err |-> r.err])
    /\ printed' = r.out
    /\ UNCHANGED environ

\* lines 609-673
EvalHooks ==
    /\ Advance("hooks", RegisterHooks(c))
    /\ UNCHANGED <<environ, printed>>

Next ==
    \/ EvalHub \/ EvalSpawner \/ EvalScheduling \/ EvalVolumes \/ EvalAuth \/ EvalAuthCommon
    \/ EvalServices \/ EvalSingleuserCmd \/ EvalSecrets \/ EvalHubConfig \/ EvalConfigD
    \/ EvalExtraConfig \/ EvalHooks

Spec == Init /\ [][Next]_vars

---------------------------------------------------------------------------
(* camelCaseify applied to one string.                                     *)

CamelAlphabet == {"_", "a", "z", "A", "1"}

RECURSIVE StringsUpTo(_)
StringsUpTo(n) ==
    IF n = 0 THEN {<<>>}
    ELSE LET shorter == StringsUpTo(n - 1) IN
         shorter \cup {Append(s, ch) : s \in shorter, ch \in CamelAlphabet}

\* the traits of the script's lists
Traits ==
    {p[1] : p \in Range(hub_traits) \cup Range(kubespawner_traits) \cup Range(common_oauth_traits)
                   \cup Range(google_traits) \cup Range(github_traits)
                   \cup Range(mediawiki_traits) \cup Range(globus_traits)}

MapperIdle ==
    /\ tree = BaseTree
    /\ secrets = BaseSecrets
    /\ files = Absent
    /\ c = <<>>
    /\ environ = <<>>
    /\ printed = <<>>
    /\ pc = "off"
    /\ error = None

InitCamel ==
    /\ cin \in StringsUpTo(MaxLen) \cup Traits
    /\ cout = None
    /\ MapperIdle
    /\ HookIdle

CamelCall ==
    /\ cout = None
    /\ cout' = C(camelCaseify(cin))
    /\ UNCHANGED <<cin, mapvars, hookvars>>

NextCamel == CamelCall

SpecCamel == InitCamel /\ [][NextCamel]_vars

---------------------------------------------------------------------------
(* The pre-spawn hook invoked on one user's spawner.                       *)

\* a profile record of the directory
Profile(uid, gid, membership, map_keys, map, advanced) ==
    D(<<"uid", "gid", "group_membership", "group_map", "advanced">>,
      [k \in {"uid", "gid", "group_membership", "group_map", "advanced"} |->
         CASE k = "uid" -> I(uid)
           [] k = "gid" -> I(gid)
           [] k = "group_membership" -> L(membership)
           [] k = "group_map" -> D(map_keys, map)
           [] k = "advanced" -> B(advanced)])

G1 == <<"g","1">>
G2 == <<"g","2">>
Sudo == <<"s","u","d","o">>
Users == <<"u","s","e","r","s">>

ProfilePlain ==
    Profile(1000, 2000, <<2000, 3000>>, <<2000, 3000>>,
            [g \in {2000, 3000} |-> IF g = 2000 THEN G1 ELSE G2], FALSE)
ProfileAdvanced ==
    Profile(1000, 2000, <<2000, 3000>>, <<2000, 3000>>,
            [g \in {2000, 3000} |-> IF g = 2000 THEN G1 ELSE G2], TRUE)
\* no 'advanced' entry, no groups
ProfileBare == DPop(Profile(7, 0, <<>>, <<>>, <<>>, FALSE), "advanced")
\* a group map in another order than the membership, with a group the user is not in
ProfileOther ==
    Profile(65534, 100, <<100, 27, 100>>, <<27, 100, 5>>,
            [g \in {27, 100, 5} |-> IF g = 27 THEN Sudo ELSE IF g = 100 THEN Users ELSE G1], FALSE)
\* a malformed record: no group_map
ProfileMalformed == DPop(ProfilePlain, "group_map")

Profiles == {ProfilePlain, ProfileAdvanced, ProfileBare, ProfileOther, ProfileMalformed}

UserNames == {<<"a","n","n">>, <<"b","o","b","1">>}

InitHook ==
    /\ MapperIdle
    /\ cin = <<>>
    /\ cout = None
    /\ hpc = [i \in 1..MaxCalls |-> "idle"]
    /\ hstate = [i \in 1..MaxCalls |-> None]
    /\ hfail = {}
    /\ store \in {None, EmptyDict} \cup {build_profile(p) : p \in Profiles}
    /\ directory \in Profiles
    /\ admin \in BOOLEAN
    /\ \E name \in UserNames :
          spawner = [user_name |-> name, uid |-> None, gid |-> None, fs_gid |-> None,
                     supplemental_gids |-> None, environment |-> <<>>]
    /\ lookups = 0
    /\ saves = 0
    /\ calls = 0
    /\ last = None

\* the hosting service invokes the hook, which runs to its first yield
\* (line 624) and waits for the auth state
HookCall(i) ==
    /\ hpc[i] = "idle"
    /\ i = calls + 1
    /\ calls' = calls + 1
    /\ hpc' = [hpc EXCEPT ![i] = "fetch"]
    /\ UNCHANGED <<hstate, hfail, store, directory, admin, spawner, lookups, saves, last>>
    /\ UNCHANGED <<mapvars, camelvars>>

\* the hook without its cache check: the directory is looked up at every
\* invocation
HookFetchedAlwaysLookup(i) ==
    /\ hpc[i] = "fetch"
    /\ lookups' = lookups + 1
    /\ hstate' = [hstate EXCEPT ![i] = build_profile(directory)]
    /\ hpc' = [hpc EXCEPT ![i] = "save"]
    /\ UNCHANGED <<hfail, store, directory, admin, spawner, saves, calls, last>>
    /\ UNCHANGED <<mapvars, camelvars>>

\* lines 624-641: resumed with the auth state; with no profile in it the
\* directory is looked up and the hook waits for the profile to be saved
HookFetched(i) ==
    /\ hpc[i] = "fetch"
    /\ IF NoProfile(store)
       THEN /\ lookups' = lookups + 1
            /\ hstate' = [hstate EXCEPT ![i] = build_profile(directory)]
            /\ hpc' = [hpc EXCEPT ![i] = "save"]
       ELSE /\ hstate' = [hstate EXCEPT ![i] = store]
            /\ hpc' = [hpc EXCEPT ![i] = "refetch"]
            /\ UNCHANGED lookups
    /\ UNCHANGED <<hfail, store, directory, admin, spawner, saves, calls, last>>
    /\ UNCHANGED <<mapvars, camelvars>>

\* lines 628-643: the profile is persisted; the hook asks for the auth state again
HookSaved(i) ==
    /\ hpc[i] = "save"
    /\ store' = hstate[i]
    /\ saves' = saves + 1
    /\ hpc' = [hpc EXCEPT ![i] = "refetch"]
    /\ UNCHANGED <<hstate, hfail, directory, admin, spawner, lookups, calls, last>>
    /\ UNCHANGED <<mapvars, camelvars>>

\* lines 643-668: resumed with the auth state, the hook configures the spawner
\* and returns, or raises where a profile field is missing
HookResumed(i) ==
    /\ hpc[i] = "refetch"
    /\ LET r == HookBody(spawner, admin, store) IN
          /\ spawner' = r.sp
          /\ hstate' = [hstate EXCEPT ![i] = store]
          /\ hpc' = [hpc EXCEPT ![i] = IF r.err = "none" THEN "done" ELSE "failed"]
          /\ hfail' = IF r.err = "none" THEN hfail ELSE hfail \cup {i}
          /\ last' = [t |-> "call", i |-> i, ok |-> r.err = "none", admin |-> admin,
                      auth_state |-> store]
    /\ UNCHANGED <<store, directory, admin, lookups, saves, calls>>
    /\ UNCHANGED <<mapvars, camelvars>>

\* an administrator grants or revokes the user's admin status
SetAdmin ==
    /\ admin' = ~admin
    /\ UNCHANGED <<hpc, hstate, hfail, store, directory, spawner, lookups, saves, calls, last>>
    /\ UNCHANGED <<mapvars, camelvars>>

\* the user's record in the directory changes
DirectoryUpdate ==
    /\ \E p \in Profiles \ {directory} : directory' = p
    /\ UNCHANGED <<hpc, hstate, hfail, store, admin, spawner, lookups, saves, calls, last>>
    /\ UNCHANGED <<mapvars, camelvars>>

\* the user logs in: the post-authentication hook build_profile stores the
\* profile of the directory in the auth state
Login ==
    /\ store /= build_profile(directory)
    /\ store' = build_profile(directory)
    /\ UNCHANGED <<hpc, hstate, hfail, directory, admin, spawner, lookups, saves, calls, last>>
    /\ UNCHANGED <<mapvars, camelvars>>

NextHook ==
    \/ \E i \in 1..MaxCalls : HookCall(i) \/ HookFetched(i) \/ HookSaved(i) \/ HookResumed(i)
    \/ SetAdmin
    \/ DirectoryUpdate
    \/ Login

SpecHook == InitHook /\ [][NextHook]_vars

---------------------------------------------------------------------------
(* The pairs of the script's lists with their keys written out in full: the *)
(* list, the settings category, the attribute and the key it is read from. *)

Pair(list, cat, attr, key) == [list |-> list, cat |-> cat, attr |-> attr, key |-> key]

PairTable ==
    { Pair("hub", "JupyterHub", "concurrent_spawn_limit", "hub.concurrentSpawnLimit"),
      Pair("hub", "JupyterHub", "active_server_limit", "hub.activeServerLimit"),
      Pair("hub", "JupyterHub", "base_url", "hub.baseUrl"),
      Pair("hub", "JupyterHub", "allow_named_servers", "hub.allowNamedServers"),
      Pair("hub", "JupyterHub", "named_server_limit_per_user", "hub.namedServerLimitPerUser"),
      Pair("hub", "JupyterHub", "authenticate_prometheus", "hub.authenticatePrometheus"),
      Pair("hub", "JupyterHub", "redirect_to_server", "hub.redirectToServer"),
      Pair("hub", "JupyterHub", "shutdown_on_logout", "hub.shutdownOnLogout"),
      Pair("hub", "JupyterHub", "template_paths", "hub.templatePaths"),
      Pair("hub", "JupyterHub", "template_vars", "hub.templateVars"),
      Pair("spawner", "KubeSpawner", "pod_name_template", "singleuser.podNameTemplate"),
      Pair("spawner", "KubeSpawner", "start_timeout", "singleuser.startTimeout"),
      Pair("spawner", "KubeSpawner", "image_pull_policy", "singleuser.image.pullPolicy"),
      Pair("spawner", "KubeSpawner", "events_enabled", "singleuser.events"),
      Pair("spawner", "KubeSpawner", "extra_labels", "singleuser.extraLabels"),
      Pair("spawner", "KubeSpawner", "extra_annotations", "singleuser.extraAnnotations"),
      Pair("spawner", "KubeSpawner", "uid", "singleuser.uid"),
      Pair("spawner", "KubeSpawner", "fs_gid", "singleuser.fsGid"),
      Pair("spawner", "KubeSpawner", "service_account", "singleuser.serviceAccountName"),
      Pair("spawner", "KubeSpawner", "storage_extra_labels", "singleuser.storage.extraLabels"),
      Pair("spawner", "KubeSpawner", "node_selector", "singleuser.nodeSelector"),
      Pair("spawner", "KubeSpawner", "node_affinity_required", "singleuser.extraNodeAffinity.required"),
      Pair("spawner", "KubeSpawner", "node_affinity_preferred", "singleuser.extraNodeAffinity.preferred"),
      Pair("spawner", "KubeSpawner", "pod_affinity_required", "singleuser.extraPodAffinity.required"),
      Pair("spawner", "KubeSpawner", "pod_affinity_preferred", "singleuser.extraPodAffinity.preferred"),
      Pair("spawner", "KubeSpawner", "pod_anti_affinity_required", "singleuser.extraPodAntiAffinity.required"),
      Pair("spawner", "KubeSpawner", "pod_anti_affinity_preferred", "singleuser.extraPodAntiAffinity.preferred"),
      Pair("spawner", "KubeSpawner", "lifecycle_hooks", "singleuser.lifecycleHooks"),
      Pair("spawner", "KubeSpawner", "init_containers", "singleuser.initContainers"),
      Pair("spawner", "KubeSpawner", "extra_containers", "singleuser.extraContainers"),
      Pair("spawner", "KubeSpawner", "mem_limit", "singleuser.memory.limit"),
      Pair("spawner", "KubeSpawner", "mem_guarantee", "singleuser.memory.guarantee"),
      Pair("spawner", "KubeSpawner", "cpu_limit", "singleuser.cpu.limit"),
      Pair("spawner", "KubeSpawner", "cpu_guarantee", "singleuser.cpu.guarantee"),
      Pair("spawner", "KubeSpawner", "extra_resource_limits", "singleuser.extraResource.limits"),
      Pair("spawner", "KubeSpawner", "extra_resource_guarantees", "singleuser.extraResource.guarantees"),
      Pair("spawner", "KubeSpawner", "environment", "singleuser.extraEnv"),
      Pair("spawner", "KubeSpawner", "profile_list", "singleuser.profileList"),
      Pair("spawner", "KubeSpawner", "extra_pod_config", "singleuser.extraPodConfig"),
      Pair("google", "GoogleOAuthenticator", "client_id", "auth.google.clientId"),
      Pair("google", "GoogleOAuthenticator", "client_secret", "auth.google.clientSecret"),
      Pair("google", "GoogleOAuthenticator", "oauth_callback_url", "auth.google.callbackUrl"),
      Pair("google", "GoogleOAuthenticator", "hosted_domain", "auth.google.hostedDomain"),
      Pair("google", "GoogleOAuthenticator", "login_service", "auth.google.loginService"),
      Pair("github", "GitHubOAuthenticator", "client_id", "auth.github.clientId"),
      Pair("github", "GitHubOAuthenticator", "client_secret", "auth.github.clientSecret"),
      Pair("github", "GitHubOAuthenticator", "oauth_callback_url", "auth.github.callbackUrl"),
      Pair("github", "GitHubOAuthenticator", "github_organization_whitelist", "auth.github.orgWhitelist"),
      Pair("cilogon", "CILogonOAuthenticator", "client_id", "auth.cilogon.clientId"),
      Pair("cilogon", "CILogonOAuthenticator", "client_secret", "auth.cilogon.clientSecret"),
      Pair("cilogon", "CILogonOAuthenticator", "oauth_callback_url", "auth.cilogon.callbackUrl"),
      Pair("gitlab", "GitLabOAuthenticator", "client_id", "auth.gitlab.clientId"),
      Pair("gitlab", "GitLabOAuthenticator", "client_secret", "auth.gitlab.clientSecret"),
      Pair("gitlab", "GitLabOAuthenticator", "oauth_callback_url", "auth.gitlab.callbackUrl"),
      Pair("mediawiki", "MWOAuthenticator", "client_id", "auth.mediawiki.clientId"),
      Pair("mediawiki", "MWOAuthenticator", "client_secret", "auth.mediawiki.clientSecret"),
      Pair("mediawiki", "MWOAuthenticator", "oauth_callback_url", "auth.mediawiki.callbackUrl"),
      Pair("mediawiki", "MWOAuthenticator", "index_url", "auth.mediawiki.indexUrl"),
      Pair("globus", "GlobusOAuthenticator", "client_id", "auth.globus.clientId"),
      Pair("globus", "GlobusOAuthenticator", "client_secret", "auth.globus.clientSecret"),
      Pair("globus", "GlobusOAuthenticator", "oauth_callback_url", "auth.globus.callbackUrl"),
      Pair("globus", "GlobusOAuthenticator", "identity_provider", "auth.globus.identityProvider") }

\* the position of a section in the script
SectionIndex(label) == CHOOSE i \in DOMAIN Sections : Sections[i] = label

\* the evaluation has run the given section and raised nothing so far
Past(label) == pc \in Range(Sections) /\ SectionIndex(pc) > SectionIndex(label)

\* the key is absent from the tree, or null
Unset(key) == get_config(key, None) = None

\* the list of the pair is one the evaluation has iterated to its end
Iterated(p) ==
    \/ p.list = "hub" /\ Past("hub")
    \/ p.list = "spawner" /\ Past("spawner")
    \/ p.list \notin {"hub", "spawner"} /\ Past("auth") /\ get_config("auth.type", None) = S(p.list)

\* a fragment of the given kind has run: its line is in the log
HasRun(kind) ==
    \/ /\ files /= Absent
       /\ \E n \in DOMAIN files.v :
             /\ files.v[n] = kind
             /\ ("Loading " \o config_dir \o " config: " \o Str(n)) \in Range(printed)
    \/ LET extra_config == get_config("hub.extraConfig", EmptyDict) IN
       \E n \in DOMAIN extra_config.v :
             /\ extra_config.v[n] = kind
             /\ ("Loading extra config: " \o Str(n)) \in Range(printed)

\* a part of the script other than the list's loop writes the attribute
WrittenElsewhere(cat, attr) ==
    \/ /\ cat = "KubeSpawner"
       /\ attr = "node_affinity_preferred"
       /\ get_config("scheduling.userPods.nodeAffinity.matchNodePurpose", None) = S("prefer")
    \/ /\ cat = "KubeSpawner"
       /\ attr = "node_affinity_required"
       /\ get_config("scheduling.userPods.nodeAffinity.matchNodePurpose", None) = S("require")
    \/ /\ cat = "KubeSpawner"
       /\ attr = "init_containers"
       /\ Truthy(DGet(get_config("singleuser.cloudMetadata", EmptyDict), "blockWithIptables", None))
    \/ /\ DHas(get_config("hub.config", EmptyDict), cat)
       /\ DHas(get_config("hub.config", EmptyDict).v[cat], attr)
    \/ cat = "KubeSpawner" /\ attr = "mem_limit" /\ HasRun("set_mem_limit")

\* C4: camelCaseify is a function of its input alone: the result is the input
\* without the underscores that a lowercase letter a-z follows, each such
\* letter in upper case and every other character as it was and in its place;
\* mem_limit gives memLimit and node_affinity_required gives
\* nodeAffinityRequired.
C4_CamelCaseify ==
    cout /= None =>
        LET dropped == {i \in 1..(Len(cin) - 1) : cin[i] = "_" /\ IsLower(cin[i + 1])}
            kept == (1..Len(cin)) \ dropped
            at(j) == CHOOSE i \in kept : Cardinality({k \in kept : k <= i}) = j
        IN /\ cout.t = "chars"
           /\ Len(cout.v) = Cardinality(kept)
           /\ \A j \in 1..Len(cout.v) :
                 cout.v[j] = IF at(j) - 1 \in dropped THEN Upper(cin[at(j)]) ELSE cin[at(j)]
           /\ Str(cin) = "mem_limit" => Str(cout.v) = "memLimit"
           /\ Str(cin) = "node_affinity_required" => Str(cout.v) = "nodeAffinityRequired"

C4_Witness ==
    /\ cout /= None
    /\ \/ Str(cin) = "node_affinity_required" /\ Str(cout.v) = "nodeAffinityRequired"
       \/ cin = <<"_", "A", "_">> /\ cout.v = cin

\* C1: for every pair of the lists whose key is absent or null, no mapping
\* step assigns the attribute, so it is never null; when the settings object
\* holds the attribute, another part of the script has written it
\* (matchNodePurpose, the iptables init container, hub.config, a fragment).
\* Two attributes outside the lists are assigned whatever their key holds,
\* null included: KubeSpawner.allow_privilege_escalation, and
\* LDAPAuthenticator.server_address in the ldap branch.
C1_UnsetKeyNotMapped ==
    /\ \A p \in PairTable :
          (Unset(p.key) /\ Has(c, p.cat, p.attr)) =>
              (c[<<p.cat, p.attr>>] /= None /\ WrittenElsewhere(p.cat, p.attr))
    /\ pc = "scheduling" =>
          /\ Has(c, "KubeSpawner", "allow_privilege_escalation")
          /\ c[<<"KubeSpawner", "allow_privilege_escalation">>]
                = get_config("singleuser.allowPrivilegeEscalation", None)
          /\ \A p \in PairTable : (p.list = "spawner" /\ Unset(p.key)) => ~Has(c, p.cat, p.attr)
    /\ (pc = "auth_common" /\ get_config("auth.type", None) = S("ldap")) =>
          /\ Has(c, "LDAPAuthenticator", "server_address")
          /\ c[<<"LDAPAuthenticator", "server_address">>] = get_config("auth.ldap.server.address", None)

C1_Witness ==
    /\ pc = "done"
    /\ \E p, q \in PairTable :
          /\ p.key \notin DOMAIN tree /\ ~Has(c, p.cat, p.attr) /\ Iterated(p)
          /\ q.key \in DOMAIN tree /\ tree[q.key] = None /\ ~Has(c, q.cat, q.attr) /\ Iterated(q)
    /\ Unset("singleuser.allowPrivilegeEscalation")
    /\ c[<<"KubeSpawner", "allow_privilege_escalation">>] = None

\* C1 as stated: an attribute whose key is absent or null is untouched
C1_AsStated ==
    \A p \in PairTable : Unset(p.key) => ~Has(c, p.cat, p.attr)

\* C2: when the evaluation completes, every pair of a list it iterated whose
\* key holds a value has its attribute equal to that value, unless a later
\* part of the script writes the attribute: matchNodePurpose prefer or require
\* extends the affinity list by the node preference or selector, the iptables
\* init container is appended to init_containers, and a hub.config entry or a
\* fragment replaces the value.
C2_SetKeyMapped ==
    pc = "done" =>
        \A p \in PairTable :
            (Iterated(p) /\ ~Unset(p.key)) =>
                /\ Has(c, p.cat, p.attr)
                /\ ~WrittenElsewhere(p.cat, p.attr) => c[<<p.cat, p.attr>>] = tree[p.key]
                /\ (WrittenElsewhere(p.cat, p.attr)
                    /\ ~DHas(get_config("hub.config", EmptyDict), p.cat)
                    /\ p.attr /= "mem_limit") =>
                       /\ c[<<p.cat, p.attr>>].t = "list"
                       /\ Len(c[<<p.cat, p.attr>>].v) = Len(tree[p.key].v) + 1
                       /\ SubSeq(c[<<p.cat, p.attr>>].v, 1, Len(tree[p.key].v)) = tree[p.key].v
                /\ (DHas(get_config("hub.config", EmptyDict), p.cat)
                    /\ DHas(get_config("hub.config", EmptyDict).v[p.cat], p.attr)
                    /\ ~HasRun("set_mem_limit")) =>
                       c[<<p.cat, p.attr>>] = get_config("hub.config", EmptyDict).v[p.cat].v[p.attr]

C2_Witness ==
    /\ pc = "done"
    /\ get_config("scheduling.userPods.nodeAffinity.matchNodePurpose", None) = S("prefer")
    /\ ~Unset("singleuser.cpu.limit")
    /\ c[<<"KubeSpawner", "cpu_limit">>] = tree["singleuser.cpu.limit"]
    /\ ~Unset("singleuser.extraNodeAffinity.preferred")
    /\ Len(c[<<"KubeSpawner", "node_affinity_preferred">>].v)
          = Len(tree["singleuser.extraNodeAffinity.preferred"].v) + 1

\* C2 as stated: the attribute equals the value of its key whatever else is set
C2_AsStated ==
    pc = "done" =>
        \A p \in PairTable :
            (p.list \in {"hub", "spawner"} /\ ~Unset(p.key)) =>
                (Has(c, p.cat, p.attr) /\ c[<<p.cat, p.attr>>] = tree[p.key])

\* C3: in every list, the OAuth branches included, a pair without a key of
\* its own is read from the key camelCaseify derives, and evaluating the pair
\* does not fail.
C3_AsStated ==
    \A p \in PairTable :
        get_config("auth.type", None) = S(p.list) =>
            /\ ~(pc = "error" /\ error.type = "TypeError"
                                 /\ error.arg = S("auth." \o p.list \o "."))
            /\ (Past("auth") /\ ~Unset(p.key)) =>
                  (Has(c, p.cat, p.attr) /\ c[<<p.cat, p.attr>>] = tree[p.key])

\* auth.type is none of the values the dispatch handles
Unrecognized == get_config("auth.type", None) \notin {S(a) : a \in AuthTypes}

\* C5: when auth.type is outside the enumerated set the evaluation never gets
\* past the dispatch: the dispatch raises ValueError "Unhandled auth type"
\* naming the value and leaves the settings object as it found it, that is
\* with the hub, spawner, scheduling and storage settings of the sections
\* before it assigned, and with no authenticator class, service or role.
C5_UnhandledAuthType ==
    /\ [](Unrecognized => ~Past("auth"))
    /\ [][(pc = "auth" /\ Unrecognized) =>
             /\ pc' = "error"
             /\ error'.type = "ValueError"
             /\ error'.msg = "Unhandled auth type: "
             /\ error'.arg = get_config("auth.type", None)
             /\ c' = c
             /\ Has(c', "JupyterHub", "spawner_class")
             /\ Has(c', "KubeSpawner", "allow_privilege_escalation")
             /\ Has(c', "JupyterHub", "hub_connect_port")
             /\ ~Has(c', "JupyterHub", "authenticator_class")
             /\ ~Has(c', "JupyterHub", "services")
             /\ ~Has(c', "JupyterHub", "load_roles")]_vars

C5_Witness ==
    /\ pc = "error"
    /\ error.msg = "Unhandled auth type: "
    /\ error.arg = S("bogus")
    /\ Has(c, "JupyterHub", "spawner_class")
    /\ ~Has(c, "JupyterHub", "authenticator_class")

\* C5 as stated: the failure precedes every assignment to the settings object
C5_AsStated ==
    (pc = "error" /\ error.msg = "Unhandled auth type: ") =>
        (error.arg = get_config("auth.type", None) /\ DOMAIN c = {})

\* the entries of a list of descriptors that carry the culler's name
Named(descriptors) ==
    {i \in DOMAIN descriptors : descriptors[i].v["name"] = S("jupyterhub-idle-culler")}

\* C6: right after the services section, with cull.enabled set there is
\* exactly one service and exactly one role named jupyterhub-idle-culler;
\* --cull-users is in the service's command iff cull.users is set, and
\* admin:users is among the role's scopes iff --cull-users is in the command.
\* With cull.enabled not set there is no such service and no such role.
C6_IdleCuller ==
    pc = "singleuser_cmd" =>
        LET services == c[<<"JupyterHub", "services">>].v
            roles == c[<<"JupyterHub", "load_roles">>].v
        IN IF Truthy(get_config("cull.enabled", B(FALSE)))
           THEN /\ Cardinality(Named(services)) = 1
                /\ Cardinality(Named(roles)) = 1
                /\ Len(services) = 1 + Len(get_config("hub.services", EmptyDict).k)
                /\ Len(roles) = 1 + Len(get_config("hub.loadRoles", EmptyDict).k)
                /\ LET command == services[CHOOSE i \in Named(services) : TRUE].v["command"].v
                       scopes == roles[CHOOSE i \in Named(roles) : TRUE].v["scopes"].v
                   IN /\ S("--cull-users") \in Range(command)
                            <=> Truthy(get_config("cull.users", None))
                      /\ S("admin:users") \in Range(scopes)
                            <=> S("--cull-users") \in Range(command)
           ELSE /\ Named(services) = {}
                /\ Named(roles) = {}
                /\ Len(services) = Len(get_config("hub.services", EmptyDict).k)
                /\ Len(roles) = Len(get_config("hub.loadRoles", EmptyDict).k)

C6_Witness ==
    /\ pc = "singleuser_cmd"
    /\ Truthy(get_config("cull.enabled", B(FALSE)))
    /\ Truthy(get_config("cull.users", None))
    /\ S("admin:users") \in Range(c[<<"JupyterHub", "load_roles">>].v[1].v["scopes"].v)
    /\ S("--cull-users") \in Range(c[<<"JupyterHub", "services">>].v[1].v["command"].v)

\* what the settings object holds for an attribute, Absent when never assigned
Setting(cat, attr) == IF Has(c, cat, attr) THEN c[<<cat, attr>>] ELSE Absent

Pos(line) ==
    IF line \in Range(printed) THEN CHOOSE i \in DOMAIN printed : printed[i] = line ELSE 0

DirLine(n) == "Loading " \o config_dir \o " config: " \o Str(n)
KeyLine(n) == "Loading extra config: " \o Str(n)

\* C10: the '*.py' fragments of the config directory run in ascending file
\* name order and before every hub.extraConfig entry, which run in ascending
\* key order ('10-a.py' before '9-b.py', 'a10' before 'a9' before 'b'); no
\* other file runs; a fragment sees the hub.config values applied and no hook
\* but one an earlier fragment assigned; with auth.type 'ldap' the hooks a
\* fragment assigned are replaced by the script's.
C10_FragmentOrder ==
    LET py == IF files = Absent THEN {} ELSE {n \in DOMAIN files.v : IsPy(n)}
        others == IF files = Absent THEN {} ELSE DOMAIN files.v \ py
        extra_config == get_config("hub.extraConfig", EmptyDict)
        keys == DOMAIN extra_config.v
        probed == {n \in py : files.v[n] = "probe"}
        x == IF DHas(get_config("hub.config", EmptyDict), "Test")
             THEN get_config("hub.config", EmptyDict).v["Test"].v["x"] ELSE None
    IN /\ \A a, b \in py :
             (StrLess(a, b) /\ Pos(DirLine(b)) > 0) =>
                 (0 < Pos(DirLine(a)) /\ Pos(DirLine(a)) < Pos(DirLine(b)))
       /\ \A a, b \in keys :
             (StrLess(a, b) /\ Pos(KeyLine(b)) > 0) =>
                 (0 < Pos(KeyLine(a)) /\ Pos(KeyLine(a)) < Pos(KeyLine(b)))
       /\ \A a \in py, b \in keys :
             Pos(KeyLine(b)) > 0 => (0 < Pos(DirLine(a)) /\ Pos(DirLine(a)) < Pos(KeyLine(b)))
       /\ \A n \in others : Pos(DirLine(n)) = 0
       /\ (Pos(DirLine(Frag10)) > 0 /\ Pos(DirLine(Frag9)) > 0) =>
             Pos(DirLine(Frag10)) < Pos(DirLine(Frag9))
       /\ (Pos(KeyLine(KeyB)) > 0) =>
             (0 < Pos(KeyLine(KeyA10)) /\ Pos(KeyLine(KeyA10)) < Pos(KeyLine(KeyA9))
              /\ Pos(KeyLine(KeyA9)) < Pos(KeyLine(KeyB)))
       /\ Past("extra_config") => \A a \in py, b \in keys : Pos(DirLine(a)) > 0 /\ Pos(KeyLine(b)) > 0
       /\ ~Past("hub_config") /\ pc /= "error" => \A a \in py, b \in keys : Pos(DirLine(a)) = 0 /\ Pos(KeyLine(b)) = 0
       /\ \A n \in py :
             (files.v[n] = "probe" /\ Has(c, "Probe", Str(n))) =>
                 /\ c[<<"Probe", Str(n)>>].v["x"] = x
                 /\ c[<<"Probe", Str(n)>>].v["hook"] = B(FALSE)
                 /\ c[<<"Probe", Str(n)>>].v["n"] = I(Cardinality({m \in py : StrLess(m, n)}))
       /\ \A n \in keys :
             (extra_config.v[n] = "probe" /\ Has(c, "Probe", Str(n))) =>
                 /\ c[<<"Probe", Str(n)>>].v["x"] = x
                 /\ c[<<"Probe", Str(n)>>].v["hook"] = B(\E m \in py : files.v[m] = "set_hooks")
                 /\ c[<<"Probe", Str(n)>>].v["n"]
                       = I(Cardinality(probed) + Cardinality({m \in keys : StrLess(m, n)}))
       /\ (pc = "done" /\ get_config("auth.type", None) = S("ldap")) =>
             /\ Setting("Spawner", "pre_spawn_hook") = S("spawner_config")
             /\ Setting("Authenticator", "post_auth_hook") = S("LDAPAuthenticator.build_profile")
       /\ (pc = "hooks" /\ HasRun("set_hooks")) =>
             /\ Setting("Spawner", "pre_spawn_hook") = S("fragment_hook")
             /\ Setting("Authenticator", "post_auth_hook") = S("fragment_hook")

C10_Witness ==
    /\ pc = "done"
    /\ get_config("auth.type", None) = S("ldap")
    /\ HasRun("set_hooks")
    /\ Setting("Spawner", "pre_spawn_hook") = S("spawner_config")
    /\ 0 < Pos(DirLine(Frag10))
    /\ Pos(DirLine(Frag10)) < Pos(DirLine(Frag9))

\* the text is the decimal notation of n: digits only, no leading zero
IsDecimal(text, n) ==
    /\ text /= <<>>
    /\ \A i \in DOMAIN text : IsDigit(text[i])
    /\ Len(text) > 1 => text[1] /= "0"
    /\ int_of(text) = n

\* the fields of a text between its single spaces, none for the empty text
Fields(text) == IF text = <<>> THEN <<>> ELSE Split(text, " ")

\* C7: after the hook completes for a user whose session profile holds uid,
\* gid, group_membership and group_map, the spawner environment has NB_USER
\* the user name, NB_UID and NB_GID the decimal notation of uid and gid,
\* GROUP_MEMBER the membership ids in list order separated by single spaces,
\* and GROUP_BUILD one 'name:id' entry per group_map entry, in the map's
\* order, separated by single spaces; for uid 1000, gid 2000, membership
\* [2000, 3000], map {2000: g1, 3000: g2} these are 1000, 2000, '2000 3000'
\* and 'g1:2000 g2:3000'.
C7_IdentityEnv ==
    (last /= None /\ last.ok) =>
        LET profile == last.auth_state.v["profile"]
            env == spawner.environment
            members == profile.v["group_membership"].v
            group_map == profile.v["group_map"]
            member == Fields(env["GROUP_MEMBER"].v)
            build == Fields(env["GROUP_BUILD"].v)
        IN /\ env["NB_USER"] = C(spawner.user_name)
           /\ IsDecimal(env["NB_UID"].v, profile.v["uid"].v)
           /\ IsDecimal(env["NB_GID"].v, profile.v["gid"].v)
           /\ Len(member) = Len(members)
           /\ \A i \in DOMAIN members : IsDecimal(member[i], members[i])
           /\ Len(build) = Len(group_map.k)
           /\ \A i \in DOMAIN group_map.k :
                 /\ Len(Split(build[i], ":")) = 2
                 /\ Split(build[i], ":")[1] = group_map.v[group_map.k[i]]
                 /\ IsDecimal(Split(build[i], ":")[2], group_map.k[i])
           /\ last.auth_state \in {build_profile(ProfilePlain), build_profile(ProfileAdvanced)} =>
                 /\ Str(env["NB_UID"].v) = "1000"
                 /\ Str(env["NB_GID"].v) = "2000"
                 /\ Str(env["GROUP_MEMBER"].v) = "2000 3000"
                 /\ Str(env["GROUP_BUILD"].v) = "g1:2000 g2:3000"

C7_Witness ==
    /\ last /= None
    /\ last.ok
    /\ last.auth_state = build_profile(ProfilePlain)
    /\ Str(spawner.environment["GROUP_MEMBER"].v) = "2000 3000"
    /\ Str(spawner.environment["NB_UID"].v) = "1000"

\* C8: after any sequence of invocations the spawner environment holds
\* GRANT_SUDO iff at the most recent invocation the user was an admin or the
\* profile's advanced flag was true.
C8_AsStated ==
    (last /= None /\ last.ok) =>
        ("GRANT_SUDO" \in DOMAIN spawner.environment
            <=> (last.admin
                 \/ Truthy(DGet(last.auth_state.v["profile"], "advanced", B(FALSE)))))

\* C11: after every invocation of the hook that completes, spawner.uid and
\* spawner.gid are 0 whatever the profile's uid and gid, spawner.fs_gid is the
\* profile's gid and spawner.supplemental_gids the profile's
\* group_membership; the profile's uid and gid are what NB_UID and NB_GID
\* spell out.
C11_SuperuserIdentity ==
    (last /= None /\ last.ok) =>
        LET profile == last.auth_state.v["profile"] IN
        /\ spawner.uid = I(0)
        /\ spawner.gid = I(0)
        /\ spawner.fs_gid = profile.v["gid"]
        /\ spawner.supplemental_gids = profile.v["group_membership"]
        /\ IsDecimal(spawner.environment["NB_UID"].v, profile.v["uid"].v)
        /\ IsDecimal(spawner.environment["NB_GID"].v, profile.v["gid"].v)

C11_Witness ==
    /\ last /= None
    /\ last.ok
    /\ last.auth_state = build_profile(ProfileOther)
    /\ spawner.uid = I(0)
    /\ spawner.gid = I(0)
    /\ spawner.fs_gid = I(100)
    /\ spawner.supplemental_gids = L(<<100, 27, 100>>)
    /\ Str(spawner.environment["NB_UID"].v) = "65534"

\* the session state holds no profile
Uncached == store = None \/ "profile" \notin DOMAIN store.v

Names(entries) == [i \in DOMAIN entries |-> entries[i].v["name"]]

\* C13: after the volumes section the volume list is the home volume (only
\* with storage type 'dynamic' or 'static'), then one volume named 'files'
\* with one item per singleuser.extraFiles entry (only when there are extra
\* files), then the extraVolumes; the mount list is the home mount, then one
\* mount per extra file in the same order, then the extraVolumeMounts; every
\* home or extra file mount names a volume of the volume list.
C13_VolumeOrder ==
    pc = "auth" =>
        LET storage_type == get_config("singleuser.storage.type", None)
            extra_files == get_config("singleuser.extraFiles", EmptyDict)
            extra_volumes == get_config("singleuser.storage.extraVolumes", L(<<>>)).v
            extra_mounts == get_config("singleuser.storage.extraVolumeMounts", L(<<>>)).v
            home == IF storage_type \in {S("dynamic"), S("static")} THEN 1 ELSE 0
            nfiles == Len(extra_files.k)
            one == IF nfiles > 0 THEN 1 ELSE 0
            volumes == c[<<"KubeSpawner", "volumes">>].v
            mounts == c[<<"KubeSpawner", "volume_mounts">>].v
        IN /\ Len(volumes) = home + one + Len(extra_volumes)
           /\ Len(mounts) = home + nfiles + Len(extra_mounts)
           /\ home = 1 =>
                 /\ volumes[1].v["name"] =
                       IF storage_type = S("static") THEN S("home")
                       ELSE get_config("singleuser.storage.dynamic.volumeNameTemplate", None)
                 /\ DHas(volumes[1], "persistentVolumeClaim")
                 /\ mounts[1].v["name"] = volumes[1].v["name"]
                 /\ mounts[1].v["mountPath"] = get_config("singleuser.storage.homeMountPath", None)
           /\ one = 1 =>
                 /\ volumes[home + 1].v["name"] = S("files")
                 /\ Len(volumes[home + 1].v["secret"].v["items"].v) = nfiles
                 /\ \A i \in 1..nfiles :
                       /\ volumes[home + 1].v["secret"].v["items"].v[i].v["key"] = S(extra_files.k[i])
                       /\ mounts[home + i].v["name"] = S("files")
                       /\ mounts[home + i].v["subPath"] = S(extra_files.k[i])
                       /\ mounts[home + i].v["mountPath"]
                             = extra_files.v[extra_files.k[i]].v["mountPath"]
           /\ SubSeq(volumes, home + one + 1, Len(volumes)) = extra_volumes
           /\ SubSeq(mounts, home + nfiles + 1, Len(mounts)) = extra_mounts
           /\ \A i \in 1..(home + nfiles) :
                 \E j \in 1..(home + one) : volumes[j].v["name"] = mounts[i].v["name"]

C13_Witness ==
    /\ pc = "auth"
    /\ get_config("singleuser.storage.type", None) = S("static")
    /\ Truthy(get_config("singleuser.extraFiles", EmptyDict))
    /\ Names(c[<<"KubeSpawner", "volumes">>].v) = <<S("home"), S("files")>>
    /\ Names(c[<<"KubeSpawner", "volume_mounts">>].v) = <<S("home"), S("files"), S("files")>>

\* the hub.config entries the loop must not apply
Seeded ==
    {<<"JupyterHub", "proxy_auth_token">>, <<"JupyterHub", "cookie_secret">>,
     <<"JupyterHub", "services">>, <<"ConfigurableHTTPProxy", "auth_token">>,
     <<"CryptKeeper", "keys">>}

\* C14: whatever hub.config holds, right after its values are applied
\* JupyterHub.cookie_secret is the fetched secret and CryptKeeper.keys the
\* fetched string split on ';', JupyterHub.proxy_auth_token and
\* ConfigurableHTTPProxy.auth_token are not set, JupyterHub.services is still
\* the list of services the script built, and every other hub.config entry
\* is the value of its attribute in its category.
C14_SeededSecretsKept ==
    pc = "config_d" =>
        LET hub_config == get_config("hub.config", EmptyDict)
            services == Setting("JupyterHub", "services")
        IN /\ Setting("JupyterHub", "cookie_secret") = secrets["hub.config.JupyterHub.cookie_secret"]
           /\ Setting("CryptKeeper", "keys").t = "list"
           /\ Str(Join(<<";">>, [i \in DOMAIN Setting("CryptKeeper", "keys").v |->
                                   <<Setting("CryptKeeper", "keys").v[i].v>>]))
                 = Str(secrets["hub.config.CryptKeeper.keys"].v)
           /\ secrets["hub.config.CryptKeeper.keys"] = C(<<"k", "1", ";", "k", "2">>) =>
                 Setting("CryptKeeper", "keys") = L(<<S("k1"), S("k2")>>)
           /\ Setting("JupyterHub", "proxy_auth_token") = Absent
           /\ Setting("ConfigurableHTTPProxy", "auth_token") = Absent
           /\ services.t = "list"
           /\ Len(services.v) = Len(get_config("hub.services", EmptyDict).k)
                                  + (IF Truthy(get_config("cull.enabled", B(FALSE))) THEN 1 ELSE 0)
           /\ \A app \in DOMAIN hub_config.v :
                 \A k \in DOMAIN hub_config.v[app].v :
                     <<app, k>> \notin Seeded => Setting(app, k) = hub_config.v[app].v[k]

C14_Witness ==
    /\ pc = "config_d"
    /\ DHas(get_config("hub.config", EmptyDict), "JupyterHub")
    /\ DHas(get_config("hub.config", EmptyDict).v["JupyterHub"], "cookie_secret")
    /\ Setting("JupyterHub", "cookie_secret") = C(<<"c", "0", "f", "f", "e", "e">>)
    /\ Setting("JupyterHub", "admin_access") = S("hub.config")
    /\ Setting("ConfigurableHTTPProxy", "api_url") = S("hub.config")

=============================================================================
